---------------------------- MODULE Spec2Model ----------------------------
(***************************************************************************)
(* Model of the ttsfm long-text streaming pipeline: the ordered streaming  *)
(* assembler (TTSClient.GenerateSpeechLongTextStreamConcurrent), the       *)
(* upstream request with its semaphore and retry loop                      *)
(* (TTSClient.makeStreamRequest) and the container surgery the workers     *)
(* apply to non-first chunks.                                              *)
(***************************************************************************)
EXTENDS Integers, Sequences, FiniteSets, TLC

(***************************************************************************)
(* Bounds of the model.                                                    *)
(***************************************************************************)
\* largest number of text chunks of one long-text run
MaxChunks == 3
\* largest LongTextStreamConfig.MaxConcurrent a run is started with
MaxConc == 2
\* LongTextStreamConfig.ChunkBufferSize of the modelled runs, in bytes
BufSize == 16
MaxBuf == 2
\* ClientConfig.MaxConcurrent of the modelled clients (semaphore capacity)
SemCap == 1
\* ClientConfig.MaxRetries of the modelled clients
MaxRetries == 1
\* number of makeStreamRequest calls of the request model
NumCalls == 2
\* longest text handed to SanitizeText and SplitTextByLength, in bytes
MaxTextLen == 4
\* largest maxLength SplitTextByLength is called with
MaxLength == 2
\* largest number of audio bytes of a chunk body
MaxAudio == 2
\* largest declared size of an ID3v2 tag
MaxTag == 1
\* longest input of a speech request, in bytes (but for the one oversized input)
MaxInputLen == 3
\* most pieces of a Content-Type
MaxCtLen == 3
\* largest requestsPerSecond of the rate limiter
MaxRate == 2
\* the parts of a second the clock of the rate limiter counts in
TicksPerSecond == 2
\* last reading of that clock
MaxClock == 6

(***************************************************************************)
(* Program constants.                                                      *)
(***************************************************************************)
defaultLongTextStreamMaxConcurrent == 3
\* bufio.NewReaderSize never allocates less than 16 bytes
bufioMinSize == 16
\* SanitizeText refuses a longer text
maxSanitizeLen == 50000
\* SpeechRequest.MaxLength when the request leaves it 0
defaultMaxLength == 2048

None == "none"

Min(a, b) == IF a < b THEN a ELSE b
Max(a, b) == IF a > b THEN a ELSE b

Take(s, n) == SubSeq(s, 1, Min(n, Len(s)))
Drop(s, n) == SubSeq(s, Min(n, Len(s)) + 1, Len(s))

(***************************************************************************)
(* Bytes.                                                                  *)
(***************************************************************************)
RECURSIVE BitOr(_, _)
BitOr(a, b) ==
    IF a = 0 THEN b
    ELSE IF b = 0 THEN a
    ELSE Max(a % 2, b % 2) + 2 * BitOr(a \div 2, b \div 2)

\* binary.LittleEndian.Uint32
LittleEndianUint32(b) == b[1] + 256 * b[2] + 65536 * b[3] + 16777216 * b[4]

TagID3 == <<73, 68, 51>>
TagRIFF == <<82, 73, 70, 70>>
TagWAVE == <<87, 65, 86, 69>>
TagFmt == <<102, 109, 116, 32>>
TagData == <<100, 97, 116, 97>>

(***************************************************************************)
(* Container surgery of a non-first chunk.  Each operator is given the     *)
(* whole upstream body and returns the bytes handed to the destination     *)
(* (out) and whether the copy ends with a non-nil error (err).             *)
(***************************************************************************)

\* discardID3v2 without the return on a Peek that ends before 10 bytes
discardID3v2WithoutShortReturn(body) ==
    IF Take(body, 3) # TagID3 THEN 0
    ELSE IF Len(body) < 10 THEN -1
    ELSE LET size == BitOr(BitOr(body[7] * 2097152, body[8] * 16384),
                           BitOr(body[9] * 128, body[10]))
             total == size + 10
         IN  IF total > Len(body) THEN -1 ELSE total

\* discardID3v2: the number of leading bytes dropped, -1 when Discard fails
discardID3v2(body) ==
    IF Len(body) < 10 THEN 0
    ELSE IF SubSeq(body, 1, 3) # TagID3 THEN 0
    ELSE LET size == BitOr(BitOr(body[7] * 2097152, body[8] * 16384),
                           BitOr(body[9] * 128, body[10]))
             total == size + 10
         IN  IF total > Len(body) THEN -1 ELSE total

CopyMP3StreamWithBuffer(body) ==
    LET d == discardID3v2(body)
    IN  IF d < 0 THEN [out |-> <<>>, err |-> TRUE]
        ELSE [out |-> Drop(body, d), err |-> FALSE]

\* the chunk walk without the ReadByte that consumes the pad byte
RECURSIVE wavWalkWithoutPad(_, _)
wavWalkWithoutPad(body, pos) ==
    IF Len(body) - pos < 8 THEN [out |-> <<>>, err |-> TRUE]
    ELSE LET chunkID == SubSeq(body, pos + 1, pos + 4)
             chunkSize == LittleEndianUint32(SubSeq(body, pos + 5, pos + 8))
             start == pos + 8
         IN  IF chunkID = TagData
             THEN [out |-> SubSeq(body, start + 1, Min(start + chunkSize, Len(body))),
                   err |-> FALSE]
             ELSE wavWalkWithoutPad(body, Min(start + chunkSize, Len(body)))

\* the chunk walk of CopyWAVDataStreamWithBuffer, from offset pos (0-based)
RECURSIVE wavWalk(_, _)
wavWalk(body, pos) ==
    IF Len(body) - pos < 8 THEN [out |-> <<>>, err |-> TRUE]
    ELSE LET chunkID == SubSeq(body, pos + 1, pos + 4)
             chunkSize == LittleEndianUint32(SubSeq(body, pos + 5, pos + 8))
             start == pos + 8
         IN  IF chunkID = TagData
             THEN [out |-> SubSeq(body, start + 1, Min(start + chunkSize, Len(body))),
                   err |-> FALSE]
             ELSE LET next == start + chunkSize + (chunkSize % 2)
                  IN  wavWalk(body, Min(next, Len(body)))

CopyWAVDataStreamWithBuffer(body) ==
    IF Len(body) < 12 THEN [out |-> <<>>, err |-> TRUE]
    ELSE IF SubSeq(body, 1, 4) # TagRIFF \/ SubSeq(body, 9, 12) # TagWAVE
         THEN [out |-> body, err |-> FALSE]
         ELSE wavWalk(body, 12)

CopyRaw(body) == [out |-> body, err |-> FALSE]


\* the surgery a worker selects from the format of the response it received
Surgery(format, body) ==
    CASE format = "mp3" -> CopyMP3StreamWithBuffer(body)
      [] format = "wav" -> CopyWAVDataStreamWithBuffer(body)
      [] OTHER -> CopyRaw(body)

\* largest Write the copy loop of a format hands to the pipe
PieceLimit(format) ==
    IF format = "mp3" THEN Max(BufSize, bufioMinSize) ELSE BufSize

RECURSIVE SplitEvery(_, _)
SplitEvery(s, n) ==
    IF Len(s) = 0 THEN <<>>
    ELSE <<Take(s, n)>> \o SplitEvery(Drop(s, n), n)

\* the Writes a copy into a buffer of b bytes makes to its destination when
\* the upstream delivers the body at once.  The MP3 copy and the copy of a
\* body without the RIFF header end in io.CopyBuffer on a bufio.Reader,
\* which writes its own buffer (of b bytes, and of no fewer than 16); the
\* 12 header bytes of a body without RIFF go out in one Write; the data of
\* a WAV and a raw body are written from buf.
StreamWrites(format, body, b) ==
    LET out == Surgery(format, body).out
    IN  CASE format = "mp3" -> SplitEvery(out, Max(b, bufioMinSize))
          [] format = "wav" ->
                IF Len(body) >= 12
                   /\ (SubSeq(body, 1, 4) # TagRIFF \/ SubSeq(body, 9, 12) # TagWAVE)
                THEN <<Take(body, 12)>> \o SplitEvery(Drop(body, 12), Max(b, bufioMinSize))
                ELSE SplitEvery(out, b)
          [] OTHER -> SplitEvery(out, b)

(***************************************************************************)
(* Offline assembly (CombineAudioChunks).  Offsets are 0-based as in the   *)
(* source; an operator that can fail returns a record with an err field.   *)
(***************************************************************************)
\* binary.LittleEndian.Uint16
LittleEndianUint16(b) == b[1] + 256 * b[2]
\* binary.Write(&buf, binary.LittleEndian, v) of a uint16 and of a uint32
PutUint16(v) == <<v % 256, (v \div 256) % 256>>
PutUint32(v) ==
    <<v % 256, (v \div 256) % 256, (v \div 65536) % 256, (v \div 16777216) % 256>>

skipID3Tag(data) ==
    IF Len(data) < 10 THEN data
    ELSE IF SubSeq(data, 1, 3) = TagID3
         THEN LET size == BitOr(BitOr(data[7] * 2097152, data[8] * 16384),
                                BitOr(data[9] * 128, data[10]))
                  totalSize == size + 10
              IN  IF totalSize < Len(data) THEN Drop(data, totalSize) ELSE data
         ELSE data

\* the loop of combineMP3Chunks over chunks[k..]
RECURSIVE mp3Loop(_, _)
mp3Loop(chunks, k) ==
    IF k > Len(chunks) THEN <<>>
    ELSE (IF k > 1 THEN skipID3Tag(chunks[k]) ELSE chunks[k]) \o mp3Loop(chunks, k + 1)

combineMP3Chunks(chunks) == [out |-> mp3Loop(chunks, 1), err |-> FALSE]

RECURSIVE rawLoop(_, _)
rawLoop(chunks, k) ==
    IF k > Len(chunks) THEN <<>> ELSE chunks[k] \o rawLoop(chunks, k + 1)

combineRawChunks(chunks) == [out |-> rawLoop(chunks, 1), err |-> FALSE]

looksLikeWAV(data) ==
    Len(data) >= 12 /\ SubSeq(data, 1, 4) = TagRIFF /\ SubSeq(data, 9, 12) = TagWAVE

NoHeader ==
    [AudioFormat |-> 0, NumChannels |-> 0, SampleRate |-> 0, ByteRate |-> 0,
     BlockAlign |-> 0, BitsPerSample |-> 0]

\* the search of parseWAVHeader for the fmt chunk, from offset
RECURSIVE fmtWalk(_, _)
fmtWalk(data, offset) ==
    IF ~(offset < Len(data) - 8) THEN [h |-> NoHeader, err |-> TRUE]
    ELSE LET chunkID == SubSeq(data, offset + 1, offset + 4)
             chunkSize == LittleEndianUint32(SubSeq(data, offset + 5, offset + 8))
             base == offset + 8
         IN  IF chunkID = TagFmt
             THEN IF offset + 8 + chunkSize > Len(data) THEN [h |-> NoHeader, err |-> TRUE]
                  ELSE IF chunkSize < 16 THEN [h |-> NoHeader, err |-> TRUE]
                  ELSE [h |-> [AudioFormat |-> LittleEndianUint16(SubSeq(data, base + 1, base + 2)),
                               NumChannels |-> LittleEndianUint16(SubSeq(data, base + 3, base + 4)),
                               SampleRate |-> LittleEndianUint32(SubSeq(data, base + 5, base + 8)),
                               ByteRate |-> LittleEndianUint32(SubSeq(data, base + 9, base + 12)),
                               BlockAlign |-> LittleEndianUint16(SubSeq(data, base + 13, base + 14)),
                               BitsPerSample |-> LittleEndianUint16(SubSeq(data, base + 15, base + 16))],
                        err |-> FALSE]
             ELSE fmtWalk(data, offset + 8 + chunkSize + (chunkSize % 2))

parseWAVHeader(data) ==
    IF Len(data) < 44 THEN [h |-> NoHeader, err |-> TRUE]
    ELSE IF ~looksLikeWAV(data) THEN [h |-> NoHeader, err |-> TRUE]
    ELSE fmtWalk(data, 12)

\* the search of extractWAVData for the data chunk, from offset
RECURSIVE dataWalk(_, _)
dataWalk(data, offset) ==
    IF ~(offset < Len(data) - 8) THEN [out |-> <<>>, err |-> TRUE]
    ELSE LET chunkID == SubSeq(data, offset + 1, offset + 4)
             chunkSize == LittleEndianUint32(SubSeq(data, offset + 5, offset + 8))
             dataStart == offset + 8
             dataEnd == Min(dataStart + chunkSize, Len(data))
         IN  IF chunkID = TagData
             THEN [out |-> SubSeq(data, dataStart + 1, dataEnd), err |-> FALSE]
             ELSE dataWalk(data, offset + 8 + chunkSize + (chunkSize % 2))

extractWAVData(data) ==
    IF Len(data) < 44 THEN [out |-> <<>>, err |-> TRUE]
    ELSE IF ~looksLikeWAV(data) THEN [out |-> <<>>, err |-> TRUE]
    ELSE dataWalk(data, 12)

buildWAVFile(header, audioData) ==
    \* uint32 values: every modelled audioData is far shorter than 2^32 bytes
    LET dataSize == Len(audioData)
        fileSize == 36 + dataSize
    IN  [out |-> TagRIFF \o PutUint32(fileSize) \o TagWAVE
                   \o TagFmt \o PutUint32(16)
                   \o PutUint16(header.AudioFormat) \o PutUint16(header.NumChannels)
                   \o PutUint32(header.SampleRate) \o PutUint32(header.ByteRate)
                   \o PutUint16(header.BlockAlign) \o PutUint16(header.BitsPerSample)
                   \o TagData \o PutUint32(dataSize) \o audioData,
         err |-> FALSE]

\* the loop of combineWAVChunks over chunks[k..]: the audio data gathered,
\* or the extraction error of a chunk that looks like a WAV
RECURSIVE wavLoop(_, _)
wavLoop(chunks, k) ==
    IF k > Len(chunks) THEN [out |-> <<>>, err |-> FALSE]
    ELSE LET x == extractWAVData(chunks[k])
             rest == wavLoop(chunks, k + 1)
         IN  IF x.err /\ looksLikeWAV(chunks[k]) THEN [out |-> <<>>, err |-> TRUE]
             ELSE IF rest.err THEN rest
             ELSE [out |-> (IF x.err THEN chunks[k] ELSE x.out) \o rest.out, err |-> FALSE]

combineWAVChunks(chunks) ==
    LET firstHeader == parseWAVHeader(chunks[1])
    IN  IF firstHeader.err THEN combineRawChunks(chunks)
        ELSE LET audioData == wavLoop(chunks, 1)
             IN  IF audioData.err THEN audioData
                 ELSE buildWAVFile(firstHeader.h, audioData.out)

CombineAudioChunks(chunks, format) ==
    IF Len(chunks) = 0 THEN [out |-> <<>>, err |-> TRUE]
    ELSE IF Len(chunks) = 1 THEN [out |-> chunks[1], err |-> FALSE]
    ELSE CASE format = "mp3" -> combineMP3Chunks(chunks)
           [] format = "wav" -> combineWAVChunks(chunks)
           [] OTHER -> combineRawChunks(chunks)

(***************************************************************************)
(* Text.  A text is a sequence of one-byte characters.                     *)
(***************************************************************************)
Alphabet == {"a", " ", ".", "<", ">"}

\* the character U+0060
Backquote == "bq"

SetMin(S) == CHOOSE x \in S : \A y \in S : x <= y

\* the white space of strings.TrimSpace, strings.Fields and SanitizeText
IsSpace(c) == c \in {" ", "\t", "\n", "\r", "\f"}
\* the class [.!?] of splitBySentences
IsTerminator(c) == c \in {".", "!", "?"}

RECURSIVE TrimLeft(_)
TrimLeft(s) ==
    IF s = <<>> THEN s
    ELSE IF IsSpace(Head(s)) THEN TrimLeft(Tail(s)) ELSE s

RECURSIVE TrimRight(_)
TrimRight(s) ==
    IF s = <<>> THEN s
    ELSE IF IsSpace(s[Len(s)]) THEN TrimRight(SubSeq(s, 1, Len(s) - 1)) ELSE s

\* strings.TrimSpace
TrimSpace(s) == TrimRight(TrimLeft(s))

NotEmpty(s) == s # <<>>
NotBlank(s) == TrimSpace(s) # <<>>

\* strings.Fields, cur being the word read so far
RECURSIVE FieldsFrom(_, _)
FieldsFrom(s, cur) ==
    IF s = <<>> THEN (IF cur = <<>> THEN <<>> ELSE <<cur>>)
    ELSE IF IsSpace(Head(s))
         THEN (IF cur = <<>> THEN <<>> ELSE <<cur>>) \o FieldsFrom(Tail(s), <<>>)
         ELSE FieldsFrom(Tail(s), Append(cur, Head(s)))

Fields(s) == FieldsFrom(s, <<>>)

\* regexp.MustCompile(`[.!?]+`).Split(text, -1): the parts between the
\* maximal runs of terminators, cur being the part read so far
RECURSIVE reSplit(_, _, _)
reSplit(s, cur, inRun) ==
    IF s = <<>> THEN <<cur>>
    ELSE IF IsTerminator(Head(s))
         THEN (IF inRun THEN <<>> ELSE <<cur>>) \o reSplit(Tail(s), <<>>, TRUE)
         ELSE reSplit(Tail(s), Append(cur, Head(s)), FALSE)

splitBySentences(text) ==
    LET parts == reSplit(text, <<>>, FALSE)
    IN  SelectSeq([k \in 1..Len(parts) |-> TrimSpace(parts[k])], NotEmpty)

\* the loop of splitByWords over words[k..], with the chunks appended so far
\* and currentChunk
RECURSIVE wordsLoop(_, _, _, _, _)
wordsLoop(words, k, chunks, currentChunk, maxLength) ==
    IF k > Len(words)
    THEN (IF currentChunk # <<>> THEN Append(chunks, currentChunk) ELSE chunks)
    ELSE LET word == words[k]
             testChunk == IF currentChunk # <<>>
                          THEN currentChunk \o <<" ">> \o word ELSE word
         IN  IF Len(testChunk) <= maxLength
             THEN wordsLoop(words, k + 1, chunks, testChunk, maxLength)
             ELSE LET flushed == IF currentChunk # <<>>
                                 THEN Append(chunks, currentChunk) ELSE chunks
                  IN  IF Len(word) > maxLength
                      THEN wordsLoop(words, k + 1,
                                     flushed \o SplitEvery(word, maxLength),
                                     <<>>, maxLength)
                      ELSE wordsLoop(words, k + 1, flushed, word, maxLength)

\* a word longer than maxLength kept whole
splitByWordsKeepLongWord(text, maxLength) == Fields(text)

splitByWords(text, maxLength) == wordsLoop(Fields(text), 1, <<>>, <<>>, maxLength)

\* the loop of SplitTextByLength over sentences[k..] when preserveWords
RECURSIVE sentencesLoop(_, _, _, _, _)
sentencesLoop(sentences, k, chunks, currentChunk, maxLength) ==
    IF k > Len(sentences)
    THEN (IF currentChunk # <<>>
          THEN Append(chunks, TrimSpace(currentChunk)) ELSE chunks)
    ELSE LET trimmed == TrimSpace(sentences[k])
         IN  IF trimmed = <<>>
             THEN sentencesLoop(sentences, k + 1, chunks, currentChunk, maxLength)
             ELSE
         LET sentence == IF IsTerminator(trimmed[Len(trimmed)])
                         THEN trimmed ELSE Append(trimmed, ".")
             testChunk == IF currentChunk # <<>>
                          THEN currentChunk \o <<" ">> \o sentence ELSE sentence
         IN  IF Len(testChunk) <= maxLength
             THEN sentencesLoop(sentences, k + 1, chunks, testChunk, maxLength)
             ELSE LET flushed == IF currentChunk # <<>>
                                 THEN Append(chunks, TrimSpace(currentChunk))
                                 ELSE chunks
                  IN  IF Len(sentence) > maxLength
                      THEN sentencesLoop(sentences, k + 1,
                                         flushed \o splitByWords(sentence, maxLength),
                                         <<>>, maxLength)
                      ELSE sentencesLoop(sentences, k + 1, flushed, sentence, maxLength)

\* the slice expressions word[i:end] of splitByWords and text[i:end] of
\* SplitTextByLength are evaluated with end = i + maxLength: with a negative
\* maxLength the first of them has end < i and panics (slice bounds out of
\* range). Every sentence and every word is longer than a negative
\* maxLength, so the first word of the first sentence reaches it.
SplitTextByLengthPanics(text, maxLength, preserveWords) ==
    /\ text # <<>>
    /\ maxLength < 0
    /\ preserveWords => splitBySentences(text) # <<>>

SplitTextByLength(text, maxLength, preserveWords) ==
    IF text = <<>> THEN <<>>
    ELSE IF Len(text) <= maxLength THEN <<text>>
    ELSE LET chunks == IF preserveWords
                       THEN sentencesLoop(splitBySentences(text), 1, <<>>, <<>>, maxLength)
                       ELSE SplitEvery(text, maxLength)
         IN  SelectSeq(chunks, NotBlank)

\* the scan of SanitizeText from position i (1-based): what it writes to result
RECURSIVE sanitizeScan(_, _)
sanitizeScan(text, i) ==
    IF i > Len(text) THEN <<>>
    ELSE IF text[i] = "<"
    THEN LET closing == {j \in (i + 1)..Len(text) : text[j] = ">"}
         IN  IF closing # {} THEN sanitizeScan(text, SetMin(closing) + 1)
             ELSE <<"<">> \o sanitizeScan(text, i + 1)
    ELSE IF text[i] = "&"
    THEN LET stops == {j \in (i + 1)..Len(text) :
                          j >= i + 10 \/ text[j] \in {" ", "\t", "\n", "\r", "<", ">", "&"}}
             j == IF stops = {} THEN Len(text) + 1 ELSE SetMin(stops)
         IN  IF j <= Len(text) /\ text[j] = ";" THEN sanitizeScan(text, j + 1)
             ELSE <<" ">> \o sanitizeScan(text, i + 1)
    ELSE IF text[i] \in {"\"", "'", Backquote} THEN <<"\"">> \o sanitizeScan(text, i + 1)
    ELSE IF text[i] # ">" THEN <<text[i]>> \o sanitizeScan(text, i + 1)
    ELSE sanitizeScan(text, i + 1)

\* ReplaceAllString of a run of white space by one space
RECURSIVE collapseSpace(_)
collapseSpace(s) ==
    IF s = <<>> THEN s
    ELSE IF IsSpace(Head(s)) THEN <<" ">> \o collapseSpace(TrimLeft(s))
    ELSE <<Head(s)>> \o collapseSpace(Tail(s))

SanitizeText(text) ==
    IF text = <<>> THEN [text |-> <<>>, err |-> FALSE]
    ELSE IF Len(text) > maxSanitizeLen THEN [text |-> <<>>, err |-> TRUE]
    ELSE [text |-> TrimSpace(collapseSpace(sanitizeScan(text, 1))), err |-> FALSE]

(***************************************************************************)
(* The upstream.  An answer to the request for chunk i is one of a few     *)
(* kinds of body; its payload bytes name the chunk they belong to.         *)
(***************************************************************************)
Kinds == {"mp3", "mp3tag", "wav", "raw", "wavbad"}

Payload(i, n) == [k \in 1..n |-> 32 * i + k]

KindFormat(kind) ==
    CASE kind = "mp3" -> "mp3"
      [] kind = "mp3tag" -> "mp3"
      [] kind = "wav" -> "wav"
      [] kind = "wavbad" -> "wav"
      [] OTHER -> "opus"

Body(kind, i) ==
    CASE kind = "mp3" ->
            TagID3 \o <<3, 0, 0>> \o <<0, 0, 0, 1>> \o <<0>> \o Payload(i, 2)
      [] kind = "mp3tag" ->
            TagID3 \o <<3, 0, 0>> \o <<0, 0, 0, 1>> \o <<0>>
      [] kind = "wav" ->
            TagRIFF \o <<26, 0, 0, 0>> \o TagWAVE
              \o TagFmt \o <<1, 0, 0, 0>> \o <<9, 0>>
              \o TagData \o <<3, 0, 0, 0>> \o Payload(i, 3) \o <<0>>
      [] kind = "wavbad" ->
            TagRIFF \o <<14, 0, 0, 0>> \o TagWAVE
              \o TagFmt \o <<1, 0, 0, 0>> \o <<9, 0>>
      [] OTHER -> Payload(i, BufSize + 2)

ChunkIdx == 0..(MaxChunks - 1)
PipeIdx == 1..(MaxChunks - 1)
WorkerIds == 1..(MaxChunks - 1)

\* lines 855-862: what the copy of a worker does with the body of chunk i, by
\* the format the upstream answered with
ChunkSurgery ==
    [kind \in Kinds |-> [i \in ChunkIdx |-> Surgery(KindFormat(kind), Body(kind, i))]]

\* the writes to the pipe that this copy makes
ChunkPieces ==
    [kind \in Kinds |->
        [i \in ChunkIdx |-> SplitEvery(ChunkSurgery[kind][i].out, PieceLimit(KindFormat(kind)))]]

\* what the upstream answers to the request for each chunk: every chunk as
\* MP3, every chunk as WAV, a different format per chunk (with an MP3 that
\* is an ID3 tag and nothing else as chunk 1), or a WAV without data chunk
\* as chunk 1
Scenarios ==
    {[i \in ChunkIdx |-> k] : k \in {"mp3", "wav"}}
      \cup {[i \in ChunkIdx |-> IF i = 1 THEN "wavbad" ELSE "wav"]}
      \cup {[i \in ChunkIdx |->
                IF i % 3 = 0 THEN "raw" ELSE IF i % 3 = 1 THEN "mp3tag" ELSE "wav"]}

(***************************************************************************)
(* The sequential assembler (GenerateSpeechLongTextStream): the chunks are *)
(* fetched and copied one after the other by one goroutine.               *)
(***************************************************************************)
\* the chunk walk of CopyWAVDataStream, from offset pos (0-based): a body
\* that ends inside a chunk other than data ends the copy without error
RECURSIVE wavWalkUnbuffered(_, _)
wavWalkUnbuffered(body, pos) ==
    IF Len(body) - pos < 8 THEN [out |-> <<>>, err |-> TRUE]
    ELSE LET chunkID == SubSeq(body, pos + 1, pos + 4)
             chunkSize == LittleEndianUint32(SubSeq(body, pos + 5, pos + 8))
             start == pos + 8
         IN  IF chunkID = TagData
             THEN [out |-> SubSeq(body, start + 1, Min(start + chunkSize, Len(body))),
                   err |-> FALSE]
             ELSE IF start + chunkSize > Len(body)
                  THEN [out |-> <<>>, err |-> FALSE]
                  ELSE wavWalkUnbuffered(body, Min(start + chunkSize + (chunkSize % 2), Len(body)))

CopyWAVDataStream(body) ==
    IF Len(body) < 12 THEN [out |-> <<>>, err |-> TRUE]
    ELSE IF SubSeq(body, 1, 4) # TagRIFF \/ SubSeq(body, 9, 12) # TagWAVE
         THEN [out |-> body, err |-> FALSE]
         ELSE wavWalkUnbuffered(body, 12)

\* lines 680-689: the copy of a later chunk, selected by out.Format, the
\* format of chunk 0; CopyMP3Stream is CopyMP3StreamWithBuffer with the
\* buffer of bufio.NewReader
SequentialSurgery(format, body) ==
    CASE format = "mp3" -> CopyMP3StreamWithBuffer(body)
      [] format = "wav" -> CopyWAVDataStream(body)
      [] OTHER -> CopyRaw(body)

\* the loop of lines 669-695 from chunk i on, n chunks in all, ups being the
\* answers of the upstream and failing the chunk whose fetch fails (n: none):
\* the bytes written to the pipe and whether the loop returned an error
RECURSIVE sequentialFrom(_, _, _, _)
sequentialFrom(i, n, ups, failing) ==
    IF i >= n THEN [bytes |-> <<>>, err |-> FALSE]
    ELSE IF i = failing THEN [bytes |-> <<>>, err |-> TRUE]
    ELSE LET copy == SequentialSurgery(KindFormat(ups[0]), Body(ups[i], i))
         IN  IF copy.err THEN [bytes |-> copy.out, err |-> TRUE]
             ELSE LET rest == sequentialFrom(i + 1, n, ups, failing)
                  IN  [bytes |-> copy.out \o rest.bytes, err |-> rest.err]

\* GenerateSpeechLongTextStream once chunk 0 is answered: what the reader of
\* out.Body receives, and whether it ends with an error
GenerateSpeechLongTextStream(n, ups, failing) ==
    LET rest == sequentialFrom(1, n, ups, failing)
    IN  [bytes |-> Body(ups[0], 0) \o rest.bytes, err |-> rest.err]

(***************************************************************************)
(* State of one long-text run (GenerateSpeechLongTextStreamConcurrent).    *)
(***************************************************************************)
VARIABLES
    phase,        \* "init", "running", "aborted" (chunk 0 failed: no stream)
    nChunks,      \* len(chunks)
    cfgMaxConc,   \* config.MaxConcurrent as passed by the caller
    ctxDone,      \* the group context is cancelled
    upstream,     \* the body kind the upstream answers with, per chunk index
    ans,          \* the upstream's answer per chunk index (a kind, or None)
    jobsNext,     \* the dispatcher's loop variable i
    jobsClosed,   \* close(jobs) has run
    wpc,          \* per worker: "off", "idle", "got", "fetch", "copy", "write", "done"
    widx,         \* per worker: idx received from jobs
    wrem,         \* per worker: the pieces still to be written to its pipe
    wserr,        \* per worker: the surgery ends with an error
    pipes,        \* per chunk index: [buf, w, rclosed] of io.Pipe
    tpc,          \* writer task: "off", "read0", "write0", "read", "write", "wait", "done"
    ti,           \* writer task: loop variable i
    trem,         \* writer task: unread rest of firstResp.Body
    outp,         \* the output pipe (outReader, outWriter): [buf, w, rclosed]
    received,     \* bytes the caller has read from out.Body
    callerState,  \* "reading", "eof", "err", "closed"
    callerErr,    \* the error the caller's Read returned
    fetched,      \* history: the chunk indices whose fetch has returned
    overtaken,    \* history: a fetch returned before that of a lower index
    firstErr,     \* history: the worker error that first cancelled the group
    extCancel,    \* history: the caller's context was cancelled
    sent,         \* history: per chunk index, the times it was sent on jobs
    issued        \* history: per chunk index, the fetches started for it

(***************************************************************************)
(* State of the upstream requests (TTSClient.makeStreamRequest) and of the *)
(* clients they are made on.                                               *)
(***************************************************************************)
VARIABLES
    sem,          \* per client: number of tokens in c.semaphore
    rpc,          \* per call: "idle", "acquire", "build", "sleep", "dial",
                  \*           "open" (stream returned), "closed", "failed"
    rattempt,     \* per call: the loop variable attempt
    rlast,        \* per call: lastErr
    rstatus,      \* per call: resp.StatusCode of the latest answer (0: none)
    rret,         \* per call: the error returned (0: none)
    rdials,       \* per call: number of httpClient.Do calls made
    rclient,      \* per call: the client it is made on
    rctx          \* the context the calls are made under is cancelled

reqVars == <<sem, rpc, rattempt, rlast, rstatus, rret, rdials, rclient, rctx>>

(***************************************************************************)
(* State of one preparation of a text (SanitizeText, SplitTextByLength),   *)
(* and of one assembly of two audio chunks (the streaming copy of the      *)
(* non-first chunk, CombineAudioChunks).                                   *)
(***************************************************************************)
VARIABLES
    textPc,        \* "off", "input", "split"
    text,          \* the text
    rawText,       \* the text before SanitizeText
    maxLength,     \* the maxLength of the call
    preserveWords, \* the preserveWords of the call
    sanitized,     \* text is the result of SanitizeText
    chunks,        \* the result of SplitTextByLength
    audioPc,       \* "off", "input"
    audioFormat,   \* "mp3", "wav"
    audioChunks,   \* what the bodies of chunk 0 and chunk 1 are made of
    streamed,      \* the streaming copy of chunk 1: [done, out, err]
    copyBuf,       \* len(buf) of the streaming copy
    writes,        \* the Writes the streaming copy made to its destination
    combined       \* CombineAudioChunks(audioChunks, audioFormat): [done, out, err]

textVars == <<textPc, text, rawText, maxLength, preserveWords, sanitized, chunks>>
audioVars == <<audioPc, audioFormat, audioChunks, streamed, copyBuf, writes, combined>>

(***************************************************************************)
(* State of one POST /v1/audio/speech (Handler.OpenAISpeech).              *)
(***************************************************************************)
VARIABLES
    hpc,       \* "off", "recv", "short", "long", "copy", "done", "aborted"
    hreq,      \* the SpeechRequest as sent: [json, input, voice, format,
               \*   maxLength, speed, autoCombine]
    hdefault,  \* Handler.autoCombineDefault
    hpath,     \* "none", "short" (handleShortTextStream), "long" (handleLongTextStream)
    hstatus,   \* the status of the response (0: none set)
    hcode,     \* the code of the JSON error body written ("none": no JSON body)
    hhdr,      \* the audio headers set: [set, format, chunks, autoCombine, origLen]
    hbody,     \* the audio bytes written to the client
    hup,       \* upstream stream requests made for this request
    hstream,   \* unread rest of streamResp.Body
    hn,        \* len(chunks) of the long-text run (0: none)
    herr       \* the error the core returned: [e, wrapped] (e = 0: none)

facadeVars == <<hpc, hreq, hdefault, hpath, hstatus, hcode, hhdr, hbody, hup, hstream, hn, herr>>

(***************************************************************************)
(* State of one processStreamResponse, and of the gateway's rate limiter.  *)
(***************************************************************************)
VARIABLES
    respPc,           \* "off", "input", "done"
    contentType,      \* resp.Header.Get("Content-Type")
    requestedFormat,  \* request.ResponseFormat
    actualFormat,     \* TTSStreamResponse.Format
    lookedUp          \* what GetFormatFromContentType returns for the header

respVars == <<respPc, contentType, requestedFormat, actualFormat, lookedUp>>

VARIABLES
    limPc,        \* "off", "on"
    limiter,      \* the rateLimiter: tokens, maxTokens, refillRate, lastRefill
    clock,        \* time.Now(), in half seconds
    limStatus,    \* what the middleware answered the last request with (0: nothing)
    limNext       \* c.Next() was called for the last request

limitVars == <<limPc, limiter, clock, limStatus, limNext>>

utilVars == <<textVars, audioVars, facadeVars, respVars, limitVars>>

asmVars == <<phase, nChunks, cfgMaxConc, ctxDone, upstream, ans, jobsNext, jobsClosed,
             wpc, widx, wrem, wserr, pipes, tpc, ti, trem, outp, received,
             callerState, callerErr, fetched, overtaken, firstErr, extCancel, sent, issued>>

(***************************************************************************)
(* Errors.  op and i say where the error arose, cause what it wraps, and   *)
(* wr the index of the writer task's "chunk %d write" wrapping (-1: none). *)
(***************************************************************************)
NoErr == [wr |-> -1, op |-> "none", i |-> -1, cause |-> "none"]
WErr(op, i, cause) == [wr |-> -1, op |-> op, i |-> i, cause |-> cause]
Wrap(k, e) == [e EXCEPT !.wr = k]
Unwrap(e) == [e EXCEPT !.wr = -1]

Open == [st |-> "open", e |-> NoErr]
ClosedEOF == [st |-> "eof", e |-> NoErr]
ClosedErr(e) == [st |-> "err", e |-> e]

NewPipe == [buf |-> <<>>, w |-> Open, rclosed |-> FALSE]
\* PipeWriter.CloseWithError / Close: never overwrites an earlier close
CloseWithError(p, cl) == IF p.w.st = "open" THEN [p EXCEPT !.w = cl] ELSE p
\* PipeReader.Close: a Write blocked on the pipe returns an error; until its
\* goroutine runs, the bytes it offered stay in buf
CloseRead(p) == [p EXCEPT !.rclosed = TRUE]

\* maxConc and workerCount as GenerateSpeechLongTextStreamConcurrent clamps them
ClampMaxConc(m, n, g) ==
    LET m1 == IF m <= 0 THEN defaultLongTextStreamMaxConcurrent ELSE m
        m2 == IF m1 > n THEN n ELSE m1
        m3 == IF g > 0 /\ m2 > g THEN g ELSE m2
    IN  IF m3 <= 0 THEN 1 ELSE m3

\* workerCount without the limit of len(chunks)-1
WorkerCountWithoutChunkLimit(m, n, g) == ClampMaxConc(m, n, g)

WorkerCount(m, n, g) ==
    LET c == ClampMaxConc(m, n, g)
        c1 == IF c > n - 1 THEN n - 1 ELSE c
    IN  IF c1 < 1 THEN 1 ELSE c1

\* ClientConfig.MaxConcurrent of the client a long-text run uses
globalMaxConcurrent == 10

Workers == {w \in WorkerIds : wpc[w] # "off"}


(***************************************************************************)
(* A long-text run starts with two or more chunks (a single chunk is       *)
(* returned as the plain upstream stream) and the caller's configuration;  *)
(* a MaxConcurrent of 0, which selects the default, comes with two chunks. *)
(***************************************************************************)
InitAsm ==
    /\ phase = "init"
    /\ nChunks \in 2..MaxChunks
    /\ cfgMaxConc \in 0..MaxConc
    /\ cfgMaxConc = 0 => nChunks = 2
    /\ ctxDone = FALSE
    /\ upstream \in Scenarios
    /\ ans = [i \in ChunkIdx |-> None]
    /\ jobsNext = 1
    /\ jobsClosed = FALSE
    /\ wpc = [w \in WorkerIds |-> "off"]
    /\ widx = [w \in WorkerIds |-> 0]
    /\ wrem = [w \in WorkerIds |-> <<>>]
    /\ wserr = [w \in WorkerIds |-> FALSE]
    /\ pipes = [i \in PipeIdx |-> NewPipe]
    /\ tpc = "off"
    /\ ti = 0
    /\ trem = <<>>
    /\ outp = NewPipe
    /\ received = <<>>
    /\ callerState = "reading"
    /\ callerErr = NoErr
    /\ fetched = {}
    /\ overtaken = FALSE
    /\ firstErr = NoErr
    /\ extCancel = FALSE
    /\ sent = [i \in ChunkIdx |-> 0]
    /\ issued = [i \in ChunkIdx |-> 0]

\* context.CancelFunc of the group context
cancel == ctxDone' = TRUE

\* the parent context of the run is cancelled (client gone, timeout)
ExternalCancel ==
    /\ phase # "aborted"
    /\ ~ctxDone
    /\ ~extCancel
    /\ tpc # "done"
    /\ ctxDone' = TRUE
    /\ extCancel' = TRUE
    /\ UNCHANGED <<reqVars, utilVars, sent, issued, phase, nChunks, cfgMaxConc, upstream, ans, jobsNext, jobsClosed, wpc,
                   widx, wrem, wserr, pipes, tpc, ti, trem, outp, received,
                   callerState, callerErr, fetched, overtaken, firstErr>>

\* the workers started before chunk 0 is fetched, and left running when the
\* fetch fails
FetchFirstFailWorkersStarted ==
    /\ phase = "init"
    /\ phase' = "aborted"
    /\ cancel
    /\ pipes' = [i \in PipeIdx |-> IF i < nChunks THEN CloseRead(pipes[i]) ELSE pipes[i]]
    /\ issued' = [issued EXCEPT ![0] = @ + 1]
    /\ wpc' = [w \in WorkerIds |->
                 IF w <= WorkerCount(cfgMaxConc, nChunks, globalMaxConcurrent)
                 THEN "idle" ELSE "off"]
    /\ UNCHANGED <<reqVars, utilVars, sent, nChunks, cfgMaxConc, upstream, ans, jobsNext, jobsClosed, widx,
                   wrem, wserr, tpc, ti, trem, outp, received, callerState,
                   callerErr, fetched, overtaken, firstErr, extCancel>>

\* lines 777-793: chunk 0 cannot be fetched, no stream is returned
FetchFirstFail ==
    /\ phase = "init"
    /\ phase' = "aborted"
    /\ cancel
    /\ pipes' = [i \in PipeIdx |-> IF i < nChunks THEN CloseRead(pipes[i]) ELSE pipes[i]]
    /\ issued' = [issued EXCEPT ![0] = @ + 1]
    /\ UNCHANGED <<reqVars, utilVars, sent, nChunks, cfgMaxConc, upstream, ans, jobsNext, jobsClosed, wpc, widx,
                   wrem, wserr, tpc, ti, trem, outp, received, callerState,
                   callerErr, fetched, overtaken, firstErr, extCancel>>

\* lines 786-931: chunk 0 is answered; workers, dispatcher and writer task start
FetchFirstOK ==
    /\ phase = "init"
    /\ ~ctxDone
    /\ ans' = [ans EXCEPT ![0] = upstream[0]]
    /\ trem' = Body(upstream[0], 0)
    /\ phase' = "running"
    /\ wpc' = [w \in WorkerIds |->
                 IF w <= WorkerCount(cfgMaxConc, nChunks, globalMaxConcurrent)
                 THEN "idle" ELSE "off"]
    /\ tpc' = "read0"
    /\ issued' = [issued EXCEPT ![0] = @ + 1]
    /\ UNCHANGED <<reqVars, utilVars, sent, nChunks, cfgMaxConc, upstream, ctxDone, jobsNext, jobsClosed, widx,
                   wrem, wserr, pipes, ti, outp, received, callerState,
                   callerErr, fetched, overtaken, firstErr, extCancel>>

(***************************************************************************)
(* Dispatcher, lines 879-888.                                              *)
(***************************************************************************)
\* the dispatcher's loop without the i++ of line 881
DispatchWithoutIncrement(w) ==
    /\ phase = "running"
    /\ ~jobsClosed
    /\ jobsNext < nChunks
    /\ wpc[w] = "idle"
    /\ \A v \in WorkerIds : v < w => wpc[v] # "idle"
    /\ wpc' = [wpc EXCEPT ![w] = "got"]
    /\ widx' = [widx EXCEPT ![w] = jobsNext]
    /\ sent' = [sent EXCEPT ![jobsNext] = @ + 1]
    /\ UNCHANGED <<reqVars, utilVars, issued, jobsNext, jobsClosed, phase, nChunks, cfgMaxConc, upstream,
                   ctxDone, ans, wrem, wserr, pipes, tpc, ti, trem, outp, received,
                   callerState, callerErr, fetched, overtaken, firstErr, extCancel>>

\* case jobs <- i: a worker blocked in "range jobs" receives i; after the
\* last index the loop ends and the deferred close(jobs) runs.  The worker
\* goroutines run the same function literal and have no identity: of the
\* workers blocked in "range jobs" the receiver is given the lowest number
Dispatch(w) ==
    /\ phase = "running"
    /\ ~jobsClosed
    /\ jobsNext < nChunks
    /\ wpc[w] = "idle"
    /\ \A v \in WorkerIds : v < w => wpc[v] # "idle"
    /\ wpc' = [wpc EXCEPT ![w] = "got"]
    /\ widx' = [widx EXCEPT ![w] = jobsNext]
    /\ jobsNext' = jobsNext + 1
    /\ jobsClosed' = (jobsNext + 1 = nChunks)
    /\ sent' = [sent EXCEPT ![jobsNext] = @ + 1]
    /\ UNCHANGED <<reqVars, utilVars, issued, phase, nChunks, cfgMaxConc, upstream, ctxDone, ans, wrem,
                   wserr, pipes, tpc, ti, trem, outp, received, callerState,
                   callerErr, fetched, overtaken, firstErr, extCancel>>

\* case <-ctx.Done(): return, and the deferred close(jobs)
DispatcherCancelled ==
    /\ phase = "running"
    /\ ~jobsClosed
    /\ jobsNext < nChunks
    /\ ctxDone
    /\ jobsClosed' = TRUE
    /\ UNCHANGED <<reqVars, utilVars, sent, issued, phase, nChunks, cfgMaxConc, upstream, ctxDone, ans, jobsNext, wpc, widx,
                   wrem, wserr, pipes, tpc, ti, trem, outp, received,
                   callerState, callerErr, fetched, overtaken, firstErr, extCancel>>

(***************************************************************************)
(* Workers, lines 824-875.                                                 *)
(***************************************************************************)
\* a worker's failure path: pw.CloseWithError(err); cancel(); return
WorkerFails(w, e) ==
    /\ pipes' = [pipes EXCEPT ![widx[w]] = CloseWithError(@, ClosedErr(e))]
    /\ cancel
    /\ firstErr' = IF ~ctxDone /\ firstErr = NoErr THEN e ELSE firstErr
    /\ wpc' = [wpc EXCEPT ![w] = "done"]
    /\ wrem' = [wrem EXCEPT ![w] = <<>>]
    /\ wserr' = [wserr EXCEPT ![w] = FALSE]

\* "range jobs" ends: the channel is closed and empty
WorkerExit(w) ==
    /\ wpc[w] = "idle"
    /\ jobsClosed
    /\ wpc' = [wpc EXCEPT ![w] = "done"]
    /\ UNCHANGED <<reqVars, utilVars, sent, issued, phase, nChunks, cfgMaxConc, upstream, ctxDone, ans, jobsNext, jobsClosed,
                   widx, wrem, wserr, pipes, tpc, ti, trem, outp, received,
                   callerState, callerErr, fetched, overtaken, firstErr, extCancel>>

\* lines 827-829: if ctx.Err() != nil { return }; else the request is built
\* (NewTTSRequest cannot fail here: chunk 0 passed the same validation)
WorkerCheck(w) ==
    /\ wpc[w] = "got"
    /\ wpc' = [wpc EXCEPT ![w] = IF ctxDone THEN "done" ELSE "fetch"]
    /\ issued' = [issued EXCEPT ![widx[w]] = IF ctxDone THEN @ ELSE @ + 1]
    /\ UNCHANGED <<reqVars, utilVars, sent, phase, nChunks, cfgMaxConc, upstream, ctxDone, ans, jobsNext, jobsClosed,
                   widx, wrem, wserr, pipes, tpc, ti, trem, outp, received,
                   callerState, callerErr, fetched, overtaken, firstErr, extCancel>>

\* line 844 returns a stream: the surgery of its format is set up
WorkerFetchOK(w) ==
    /\ wpc[w] = "fetch"
    /\ LET kind == upstream[widx[w]]
       IN  /\ ans' = [ans EXCEPT ![widx[w]] = kind]
           /\ wrem' = [wrem EXCEPT ![w] = ChunkPieces[kind][widx[w]]]
           /\ wserr' = [wserr EXCEPT ![w] = ChunkSurgery[kind][widx[w]].err]
    /\ wpc' = [wpc EXCEPT ![w] = "copy"]
    /\ fetched' = fetched \cup {widx[w]}
    /\ overtaken' = (overtaken \/ \E j \in 1..(widx[w] - 1) : j \notin fetched)
    /\ UNCHANGED <<reqVars, utilVars, sent, issued, phase, nChunks, cfgMaxConc, upstream, ctxDone, jobsNext, jobsClosed,
                   widx, pipes, tpc, ti, trem, outp, received, callerState,
                   callerErr, firstErr, extCancel>>

\* lines 845-849: the fetch returns an error (the context's once it is cancelled)
WorkerFetchFail(w) ==
    /\ wpc[w] = "fetch"
    /\ WorkerFails(w, WErr("fetch", widx[w], IF ctxDone THEN "ctx" ELSE "upstream"))
    /\ UNCHANGED <<reqVars, utilVars, sent, issued, phase, nChunks, cfgMaxConc, upstream, ans, jobsNext, jobsClosed, widx,
                   tpc, ti, trem, outp, received, callerState, callerErr,
                   fetched, overtaken, extCancel>>

\* pw.Write returning before its bytes are read, as on a buffered pipe
WorkerReadyUnblocked(w) == wpc[w] \in {"copy", "write"}

\* the worker is in its copy loop and not blocked in pw.Write
WorkerReady(w) ==
    \/ wpc[w] = "copy"
    \/ wpc[w] = "write" /\ pipes[widx[w]].buf = <<>>

\* the copy loop hands the next piece to pw.Write, which blocks until it is read
WorkerWrite(w) ==
    /\ WorkerReady(w)
    /\ wrem[w] # <<>>
    /\ ~pipes[widx[w]].rclosed
    /\ pipes' = [pipes EXCEPT ![widx[w]].buf = Head(wrem[w])]
    /\ wrem' = [wrem EXCEPT ![w] = Tail(@)]
    /\ wpc' = [wpc EXCEPT ![w] = "write"]
    /\ UNCHANGED <<reqVars, utilVars, sent, issued, phase, nChunks, cfgMaxConc, upstream, ctxDone, ans, jobsNext, jobsClosed,
                   widx, wserr, tpc, ti, trem, outp, received, callerState,
                   callerErr, fetched, overtaken, firstErr, extCancel>>

\* pw.Write returns io.ErrClosedPipe: the read side is closed (lines 867-871)
WorkerWriteClosed(w) ==
    /\ wpc[w] \in {"copy", "write"}
    /\ pipes[widx[w]].rclosed
    /\ \/ WorkerReady(w) /\ wrem[w] # <<>>
       \/ wpc[w] = "write" /\ pipes[widx[w]].buf # <<>>
    /\ WorkerFails(w, WErr("copy", widx[w], "closedpipe"))
    /\ UNCHANGED <<reqVars, utilVars, sent, issued, phase, nChunks, cfgMaxConc, upstream, ans, jobsNext, jobsClosed, widx,
                   tpc, ti, trem, outp, received, callerState, callerErr,
                   fetched, overtaken, extCancel>>

\* sr.Body.Read fails before the body ended (lines 867-871)
WorkerReadFail(w) ==
    /\ WorkerReady(w)
    /\ wrem[w] # <<>>
    /\ WorkerFails(w, WErr("copy", widx[w], IF ctxDone THEN "ctx" ELSE "read"))
    /\ UNCHANGED <<reqVars, utilVars, sent, issued, phase, nChunks, cfgMaxConc, upstream, ans, jobsNext, jobsClosed, widx,
                   tpc, ti, trem, outp, received, callerState, callerErr,
                   fetched, overtaken, extCancel>>

\* the copy loop without the final pw.Close()
WorkerCopyEndWithoutClose(w) ==
    /\ WorkerReady(w)
    /\ wrem[w] = <<>>
    /\ wpc[w] # "idle"
    /\ IF wserr[w]
       THEN /\ WorkerFails(w, WErr("copy", widx[w], "surgery"))
            /\ UNCHANGED <<reqVars, utilVars, sent, issued, phase, nChunks, cfgMaxConc, upstream, ans, jobsNext, jobsClosed,
                           widx, tpc, ti, trem, outp, received, callerState,
                           callerErr, fetched, overtaken, extCancel>>
       ELSE /\ wpc' = [wpc EXCEPT ![w] = "idle"]
            /\ UNCHANGED <<reqVars, utilVars, sent, issued, phase, nChunks, cfgMaxConc, upstream, ctxDone, ans, jobsNext,
                           jobsClosed, widx, wrem, wserr, pipes, tpc, ti, trem, outp,
                           received, callerState, callerErr, fetched, overtaken, firstErr,
                           extCancel>>

\* the copy returned: lines 867-873, then back to "range jobs"
WorkerCopyEnd(w) ==
    /\ WorkerReady(w)
    /\ wrem[w] = <<>>
    /\ IF wserr[w]
       THEN /\ WorkerFails(w, WErr("copy", widx[w], "surgery"))
            /\ UNCHANGED <<reqVars, utilVars, sent, issued, phase, nChunks, cfgMaxConc, upstream, ans, jobsNext, jobsClosed,
                           widx, tpc, ti, trem, outp, received, callerState,
                           callerErr, fetched, overtaken, extCancel>>
       ELSE /\ pipes' = [pipes EXCEPT ![widx[w]] = CloseWithError(@, ClosedEOF)]
            /\ wpc' = [wpc EXCEPT ![w] = "idle"]
            /\ UNCHANGED <<reqVars, utilVars, sent, issued, phase, nChunks, cfgMaxConc, upstream, ctxDone, ans, jobsNext,
                           jobsClosed, widx, wrem, wserr, tpc, ti, trem, outp,
                           received, callerState, callerErr, fetched, overtaken, firstErr,
                           extCancel>>

(***************************************************************************)
(* Writer task, lines 890-931.                                             *)
(***************************************************************************)
\* fail without outWriter.CloseWithError(err): the deferred outWriter.Close()
\* is then the first close of the output
failWithoutCloseWithError(e, ps) ==
    /\ outp' = [outp EXCEPT !.buf = <<>>]
    /\ cancel
    /\ pipes' = [i \in PipeIdx |-> IF i < nChunks THEN CloseRead(ps[i]) ELSE ps[i]]
    /\ tpc' = "wait"

\* fail, lines 891-899, followed by the return into the deferred function;
\* ps is the state of the pipes when fail is called
fail(e, ps) ==
    /\ outp' = [CloseWithError(outp, ClosedErr(e)) EXCEPT !.buf = <<>>]
    /\ cancel
    /\ pipes' = [i \in PipeIdx |-> IF i < nChunks THEN CloseRead(ps[i]) ELSE ps[i]]
    /\ tpc' = "wait"

\* the writer task is in the copy loop of chunk 0 and not blocked in outWriter.Write
Writer0Ready == tpc = "read0" \/ (tpc = "write0" /\ outp.buf = <<>>)
\* the writer task is in the copy loop of pipe ti and not blocked in outWriter.Write
WriterPReady == tpc = "read" \/ (tpc = "write" /\ outp.buf = <<>>)

\* line 911: a piece of firstResp.Body is read and handed to outWriter.Write
WriterRead0 ==
    /\ Writer0Ready
    /\ trem # <<>>
    /\ ~outp.rclosed
    /\ outp' = [outp EXCEPT !.buf = Take(trem, BufSize)]
    /\ trem' = Drop(trem, BufSize)
    /\ tpc' = "write0"
    /\ UNCHANGED <<reqVars, utilVars, sent, issued, phase, nChunks, cfgMaxConc, upstream, ctxDone, ans, jobsNext, jobsClosed,
                   wpc, widx, wrem, wserr, pipes, ti, received, callerState,
                   callerErr, fetched, overtaken, firstErr, extCancel>>

\* lines 911-916: firstResp.Body.Read fails before the body ended
WriterBody0Fail ==
    /\ Writer0Ready
    /\ trem # <<>>
    /\ fail(Wrap(0, WErr("body0", 0, IF ctxDone THEN "ctx" ELSE "read")), pipes)
    /\ UNCHANGED <<reqVars, utilVars, sent, issued, phase, nChunks, cfgMaxConc, upstream, ans, jobsNext, jobsClosed, wpc,
                   widx, wrem, wserr, ti, trem, received, callerState, callerErr,
                   fetched, overtaken, firstErr, extCancel>>

\* outWriter.Write returns io.ErrClosedPipe: the caller closed out.Body
WriterOutClosed ==
    /\ outp.rclosed
    /\ \/ Writer0Ready /\ trem # <<>>
       \/ tpc \in {"write0", "write"} /\ outp.buf # <<>>
    /\ fail(Wrap(ti, WErr("out", ti, "closedpipe")), pipes)
    /\ UNCHANGED <<reqVars, utilVars, sent, issued, phase, nChunks, cfgMaxConc, upstream, ans, jobsNext, jobsClosed, wpc,
                   widx, wrem, wserr, ti, trem, received, callerState, callerErr,
                   fetched, overtaken, firstErr, extCancel>>

\* line 911 returns nil: chunk 0 is written, the loop over the pipes starts
WriterEOF0 ==
    /\ Writer0Ready
    /\ trem = <<>>
    /\ tpc' = "read"
    /\ ti' = 1
    /\ UNCHANGED <<reqVars, utilVars, sent, issued, phase, nChunks, cfgMaxConc, upstream, ctxDone, ans, jobsNext, jobsClosed,
                   wpc, widx, wrem, wserr, pipes, trem, outp, received,
                   callerState, callerErr, fetched, overtaken, firstErr, extCancel>>

\* the writer task copying from whichever pipe has bytes instead of pipes[i]
WriterReadAnyPipe ==
    /\ WriterPReady
    /\ ~outp.rclosed
    /\ \E j \in 1..(nChunks - 1) :
          /\ pipes[j].buf # <<>>
          /\ pipes' = [pipes EXCEPT ![j].buf = Drop(@, BufSize)]
          /\ outp' = [outp EXCEPT !.buf = Take(pipes[j].buf, BufSize)]
    /\ tpc' = "write"
    /\ UNCHANGED <<ctxDone, ti>>
    /\ UNCHANGED <<reqVars, utilVars, sent, issued, phase, nChunks, cfgMaxConc, upstream, ans, jobsNext, jobsClosed, wpc,
                   widx, wrem, wserr, trem, received, callerState, callerErr,
                   fetched, overtaken, firstErr, extCancel>>

\* line 924: bytes are read from pipes[i].r and handed to outWriter.Write
WriterRead ==
    /\ WriterPReady
    /\ pipes[ti].buf # <<>>
    /\ LET ps == [pipes EXCEPT ![ti].buf = Drop(@, BufSize)]
       IN  IF outp.rclosed
           THEN /\ fail(Wrap(ti, WErr("out", ti, "closedpipe")), ps)
                /\ UNCHANGED ti
           ELSE /\ pipes' = ps
                /\ outp' = [outp EXCEPT !.buf = Take(pipes[ti].buf, BufSize)]
                /\ tpc' = "write"
                /\ UNCHANGED <<ctxDone, ti>>
    /\ UNCHANGED <<reqVars, utilVars, sent, issued, phase, nChunks, cfgMaxConc, upstream, ans, jobsNext, jobsClosed, wpc,
                   widx, wrem, wserr, trem, received, callerState, callerErr,
                   fetched, overtaken, firstErr, extCancel>>

\* line 924 returns nil (the pipe was closed cleanly), line 925, next i;
\* after the last pipe the deferred function runs cancel()
WriterPipeEOF ==
    /\ WriterPReady
    /\ pipes[ti].buf = <<>>
    /\ pipes[ti].w.st = "eof"
    /\ pipes' = [pipes EXCEPT ![ti] = CloseRead(@)]
    /\ IF ti + 1 < nChunks
       THEN /\ ti' = ti + 1
            /\ tpc' = "read"
            /\ UNCHANGED ctxDone
       ELSE /\ cancel
            /\ tpc' = "wait"
            /\ UNCHANGED ti
    /\ UNCHANGED <<reqVars, utilVars, sent, issued, phase, nChunks, cfgMaxConc, upstream, ans, jobsNext, jobsClosed, wpc,
                   widx, wrem, wserr, trem, outp, received, callerState,
                   callerErr, fetched, overtaken, firstErr, extCancel>>

\* line 924 returns the error the pipe was closed with: lines 925-929
WriterPipeErr ==
    /\ WriterPReady
    /\ pipes[ti].buf = <<>>
    /\ pipes[ti].w.st = "err"
    /\ fail(Wrap(ti, pipes[ti].w.e), pipes)
    /\ UNCHANGED <<reqVars, utilVars, sent, issued, phase, nChunks, cfgMaxConc, upstream, ans, jobsNext, jobsClosed, wpc,
                   widx, wrem, wserr, ti, trem, received, callerState, callerErr,
                   fetched, overtaken, firstErr, extCancel>>

\* the deferred function, lines 901-905: wg.Wait() returns, outWriter.Close()
WriterWait ==
    /\ tpc = "wait"
    /\ \A w \in Workers : wpc[w] = "done"
    /\ outp' = CloseWithError(outp, ClosedEOF)
    /\ tpc' = "done"
    /\ UNCHANGED <<reqVars, utilVars, sent, issued, phase, nChunks, cfgMaxConc, upstream, ctxDone, ans, jobsNext, jobsClosed,
                   wpc, widx, wrem, wserr, pipes, ti, trem, received, callerState,
                   callerErr, fetched, overtaken, firstErr, extCancel>>

(***************************************************************************)
(* The caller, reading out.Body (Handler.handleLongTextStream's io.Copy).  *)
(***************************************************************************)
CallerRead ==
    /\ callerState = "reading"
    /\ outp.buf # <<>>
    /\ received' = received \o outp.buf
    /\ outp' = [outp EXCEPT !.buf = <<>>]
    /\ UNCHANGED <<reqVars, utilVars, sent, issued, phase, nChunks, cfgMaxConc, upstream, ctxDone, ans, jobsNext, jobsClosed,
                   wpc, widx, wrem, wserr, pipes, tpc, ti, trem, callerState,
                   callerErr, fetched, overtaken, firstErr, extCancel>>

\* Read returns io.EOF or the error outWriter was closed with
CallerEnd ==
    /\ callerState = "reading"
    /\ outp.buf = <<>>
    /\ outp.w.st # "open"
    /\ callerState' = outp.w.st
    /\ callerErr' = outp.w.e
    /\ UNCHANGED <<reqVars, utilVars, sent, issued, phase, nChunks, cfgMaxConc, upstream, ctxDone, ans, jobsNext, jobsClosed,
                   wpc, widx, wrem, wserr, pipes, tpc, ti, trem, outp, received,
                   fetched, overtaken, firstErr, extCancel>>

\* TTSStreamResponse.Close before the stream ended
CallerClose ==
    /\ phase = "running"
    /\ callerState = "reading"
    /\ outp' = CloseRead(outp)
    /\ callerState' = "closed"
    /\ UNCHANGED <<reqVars, utilVars, sent, issued, phase, nChunks, cfgMaxConc, upstream, ctxDone, ans, jobsNext, jobsClosed,
                   wpc, widx, wrem, wserr, pipes, tpc, ti, trem, received,
                   callerErr, fetched, overtaken, firstErr, extCancel>>


NextAsm ==
    \/ ExternalCancel
    \/ FetchFirstFail
    \/ FetchFirstOK
    \/ \E w \in WorkerIds : Dispatch(w)
    \/ DispatcherCancelled
    \/ \E w \in WorkerIds : WorkerExit(w)
    \/ \E w \in WorkerIds : WorkerCheck(w)
    \/ \E w \in WorkerIds : WorkerFetchOK(w)
    \/ \E w \in WorkerIds : WorkerFetchFail(w)
    \/ \E w \in WorkerIds : WorkerWrite(w)
    \/ \E w \in WorkerIds : WorkerWriteClosed(w)
    \/ \E w \in WorkerIds : WorkerReadFail(w)
    \/ \E w \in WorkerIds : WorkerCopyEnd(w)
    \/ WriterRead0
    \/ WriterBody0Fail
    \/ WriterOutClosed
    \/ WriterEOF0
    \/ WriterRead
    \/ WriterPipeEOF
    \/ WriterPipeErr
    \/ WriterWait
    \/ CallerRead
    \/ CallerEnd
    \/ CallerClose

(***************************************************************************)
(* Upstream requests.  Errors and statuses are numbers: a positive number  *)
(* is the HTTP status of an upstream exception.                            *)
(***************************************************************************)
ErrNetwork == -1      \* NewNetworkException, line 1134
ErrNewRequest == -2   \* "failed to create request", line 1097
ErrCtx == -3          \* ctx.Err()
ErrMaxRetries == -4   \* "Maximum retries exceeded", line 1168
ErrBuild == -5        \* the multipart form could not be written, lines 1065-1073

\* the statuses the upstream answers with: success, the four of lines 1156-1157,
\* and some of the others
StatusCodes == {200, 302, 400, 401, 403, 404, 429, 503}

\* the test of lines 1156-1159 without 404
NonRetryableWithout404(status) == status = 400 \/ status = 401 \/ status = 403

\* lines 1156-1159: the statuses that end the request at once
NonRetryable(status) == status = 400 \/ status = 401 \/ status = 403 \/ status = 404

Calls == 1..NumCalls
Clients == {1, 2}

\* the clients a call can be made on: Handler.handleShortTextStream and
\* Handler.handleLongTextStream construct a client per HTTP request, so two
\* calls share a client (one long-text run) or do not (two HTTP requests)
ClientChoices(c) == IF c = 1 THEN {1} ELSE Clients

\* NewTTSClient: semaphore: make(chan struct{}, config.MaxConcurrent)
SemaphoreCap(cl) == SemCap

InitReq ==
    /\ sem = [cl \in Clients |-> 0]
    /\ rpc = [c \in Calls |-> "idle"]
    /\ rattempt = [c \in Calls |-> 0]
    /\ rlast = [c \in Calls |-> 0]
    /\ rstatus = [c \in Calls |-> 0]
    /\ rret = [c \in Calls |-> 0]
    /\ rdials = [c \in Calls |-> 0]
    /\ rclient = [c \in Calls |-> 1]
    /\ rctx = FALSE

\* the deferred "<-c.semaphore" of line 1041
Release(c) == sem' = [sem EXCEPT ![rclient[c]] = @ - 1]

\* a return of makeStreamRequest after the token was acquired; the locals
\* attempt and lastErr end with the call
Return(c, pc, e) ==
    /\ Release(c)
    /\ rpc' = [rpc EXCEPT ![c] = pc]
    /\ rret' = [rret EXCEPT ![c] = e]
    /\ rattempt' = [rattempt EXCEPT ![c] = 0]
    /\ rlast' = [rlast EXCEPT ![c] = 0]

\* the loop test of line 1083 letting one attempt too many through
ContinueOneMore(c, e) ==
    IF rattempt[c] + 1 <= MaxRetries + 1
    THEN /\ rlast' = [rlast EXCEPT ![c] = e]
         /\ rattempt' = [rattempt EXCEPT ![c] = @ + 1]
         /\ rpc' = [rpc EXCEPT ![c] = "sleep"]
         /\ UNCHANGED <<sem, rret>>
    ELSE Return(c, "failed", IF e # 0 THEN e ELSE ErrMaxRetries)

\* "continue" of the retry loop: attempt++, the loop test, lines 1165-1168
Continue(c, e) ==
    IF rattempt[c] + 1 <= MaxRetries
    THEN /\ rlast' = [rlast EXCEPT ![c] = e]
         /\ rattempt' = [rattempt EXCEPT ![c] = @ + 1]
         /\ rpc' = [rpc EXCEPT ![c] = "sleep"]
         /\ UNCHANGED <<sem, rret>>
    ELSE Return(c, "failed", IF e # 0 THEN e ELSE ErrMaxRetries)

\* makeStreamRequest is called on a client and reaches the select of line
\* 1039: if the semaphore has room the send can proceed at once; if it is
\* full, or the context is already done, the call is left at the select
\* ("acquire"), parked or about to take the ctx.Done() case. With room and
\* a done context both cases are ready and select takes either.
ReqCall(c) ==
    /\ rpc[c] = "idle"
    /\ \E cl \in ClientChoices(c) :
          /\ rclient' = [rclient EXCEPT ![c] = cl]
          /\ \/ /\ sem[cl] < SemaphoreCap(cl)
                /\ sem' = [sem EXCEPT ![cl] = @ + 1]
                /\ rpc' = [rpc EXCEPT ![c] = "build"]
             \/ /\ sem[cl] >= SemaphoreCap(cl) \/ rctx
                /\ rpc' = [rpc EXCEPT ![c] = "acquire"]
                /\ UNCHANGED sem
    /\ UNCHANGED <<asmVars, utilVars, rattempt, rlast, rstatus, rret, rdials, rctx>>

\* the context of the calls is cancelled
ReqCancel ==
    /\ \E c \in Calls : rpc[c] \in {"acquire", "build", "sleep", "dial"}
    /\ ~rctx
    /\ rctx' = TRUE
    /\ UNCHANGED <<asmVars, utilVars, sem, rpc, rattempt, rlast, rstatus, rret, rdials, rclient>>

\* line 1040: case c.semaphore <- struct{}{}, for a call parked at the
\* select: a token released by another call is handed to it, unless the
\* close of ctx.Done() has woken it before
ReqAcquire(c) ==
    /\ rpc[c] = "acquire"
    /\ ~rctx
    /\ sem[rclient[c]] < SemaphoreCap(rclient[c])
    /\ sem' = [sem EXCEPT ![rclient[c]] = @ + 1]
    /\ rpc' = [rpc EXCEPT ![c] = "build"]
    /\ UNCHANGED <<asmVars, utilVars, rattempt, rlast, rstatus, rret, rdials, rclient, rctx>>

\* lines 1042-1043: case <-ctx.Done(): return nil, ctx.Err()
ReqAcquireCancelled(c) ==
    /\ rpc[c] = "acquire"
    /\ rctx
    /\ rpc' = [rpc EXCEPT ![c] = "failed"]
    /\ rret' = [rret EXCEPT ![c] = ErrCtx]
    /\ UNCHANGED <<asmVars, utilVars, sem, rattempt, rlast, rstatus, rdials, rclient, rctx>>

\* lines 1046-1083: the form is built and the retry loop entered
ReqBuild(c) ==
    /\ rpc[c] = "build"
    /\ IF 0 <= MaxRetries
       THEN /\ rpc' = [rpc EXCEPT ![c] = "dial"]
            /\ UNCHANGED <<sem, rret, rattempt, rlast>>
       ELSE Return(c, "failed", ErrMaxRetries)
    /\ UNCHANGED <<asmVars, utilVars, rstatus, rdials, rclient, rctx>>

\* lines 1065-1073: writing the form fails
ReqBuildFail(c) ==
    /\ rpc[c] = "build"
    /\ Return(c, "failed", ErrBuild)
    /\ UNCHANGED <<asmVars, utilVars, rstatus, rdials, rclient, rctx>>

\* a backoff that does not listen to the context: time.Sleep(delay)
ReqSleepDoneDeaf(c) ==
    /\ rpc[c] = "sleep"
    /\ rpc' = [rpc EXCEPT ![c] = "dial"]
    /\ UNCHANGED <<asmVars, utilVars, sem, rattempt, rlast, rstatus, rret, rdials, rclient, rctx>>

\* lines 1088-1089: case <-time.After(delay). The delay is at least a
\* second (ExponentialBackoff), so the timer is not ready when the select
\* is entered, and a call parked at the select is woken by whichever of the
\* timer and the close of ctx.Done() comes first
ReqSleepDone(c) ==
    /\ rpc[c] = "sleep"
    /\ ~rctx
    /\ rpc' = [rpc EXCEPT ![c] = "dial"]
    /\ UNCHANGED <<asmVars, utilVars, sem, rattempt, rlast, rstatus, rret, rdials, rclient, rctx>>

\* the return of lines 1090-1091 if the token were released by hand on the
\* other return paths and forgotten on this one
ReqSleepCancelledWithoutRelease(c) ==
    /\ rpc[c] = "sleep"
    /\ rctx
    /\ rpc' = [rpc EXCEPT ![c] = "failed"]
    /\ rret' = [rret EXCEPT ![c] = ErrCtx]
    /\ rattempt' = [rattempt EXCEPT ![c] = 0]
    /\ rlast' = [rlast EXCEPT ![c] = 0]
    /\ UNCHANGED sem
    /\ UNCHANGED <<asmVars, utilVars, rstatus, rdials, rclient, rctx>>

\* lines 1090-1091: case <-ctx.Done(): return nil, ctx.Err()
ReqSleepCancelled(c) ==
    /\ rpc[c] = "sleep"
    /\ rctx
    /\ Return(c, "failed", ErrCtx)
    /\ UNCHANGED <<asmVars, utilVars, rstatus, rdials, rclient, rctx>>

\* http.NewRequest gets the same method and URL in every attempt of a call:
\* it fails in all of them or in none
NewRequestFailed(c) == rattempt[c] > 0 /\ rlast[c] = ErrNewRequest

\* lines 1095-1099: http.NewRequest fails, continue
ReqNewRequestFail(c) ==
    /\ rpc[c] = "dial"
    /\ rattempt[c] = 0 \/ NewRequestFailed(c)
    /\ Continue(c, ErrNewRequest)
    /\ UNCHANGED <<asmVars, utilVars, rstatus, rdials, rclient, rctx>>

\* lines 1132-1137: httpClient.Do returns an error, continue
ReqDialError(c) ==
    /\ rpc[c] = "dial"
    /\ ~NewRequestFailed(c)
    /\ rdials' = [rdials EXCEPT ![c] = @ + 1]
    /\ rstatus' = [rstatus EXCEPT ![c] = 0]
    /\ Continue(c, ErrNetwork)
    /\ UNCHANGED <<asmVars, utilVars, rclient, rctx>>

\* lines 1132-1162: httpClient.Do returns a response with some status
ReqDialAnswer(c) ==
    /\ rpc[c] = "dial"
    /\ ~NewRequestFailed(c)
    /\ rdials' = [rdials EXCEPT ![c] = @ + 1]
    /\ \E status \in StatusCodes :
         /\ rstatus' = [rstatus EXCEPT ![c] = status]
         /\ IF status = 200
            THEN Return(c, "open", 0)
            ELSE IF NonRetryable(status)
            THEN Return(c, "failed", status)
            ELSE Continue(c, status)
    /\ UNCHANGED <<asmVars, utilVars, rclient, rctx>>

\* TTSStreamResponse.Close: the body of a returned stream is closed
ReqCloseStream(c) ==
    /\ rpc[c] = "open"
    /\ rpc' = [rpc EXCEPT ![c] = "closed"]
    /\ UNCHANGED <<asmVars, utilVars, sem, rattempt, rlast, rstatus, rret, rdials, rclient, rctx>>

NextReq ==
    \/ \E c \in Calls : ReqCall(c)
    \/ ReqCancel
    \/ \E c \in Calls : ReqAcquire(c)
    \/ \E c \in Calls : ReqAcquireCancelled(c)
    \/ \E c \in Calls : ReqBuild(c)
    \/ \E c \in Calls : ReqBuildFail(c)
    \/ \E c \in Calls : ReqSleepDone(c)
    \/ \E c \in Calls : ReqSleepCancelled(c)
    \/ \E c \in Calls : ReqNewRequestFail(c)
    \/ \E c \in Calls : ReqDialError(c)
    \/ \E c \in Calls : ReqDialAnswer(c)
    \/ \E c \in Calls : ReqCloseStream(c)

(***************************************************************************)
(* The preparation of a text: lines 592-597 of the client sanitize the     *)
(* text and split the result; SplitTextByLength is exported and is called  *)
(* on any text.                                                            *)
(***************************************************************************)
RECURSIVE SeqsUpTo(_, _)
SeqsUpTo(S, n) ==
    IF n = 0 THEN {<<>>}
    ELSE LET shorter == SeqsUpTo(S, n - 1)
         IN  shorter \cup {Append(t, c) : t \in {u \in shorter : Len(u) = n - 1}, c \in S}

\* texts with entities and quotes, as SanitizeText meets them
MarkupAlphabet == {"a", " ", "&", ";", "'"}
AmpEntity == <<"&", "a", "m", "p", ";">>
LtEntity == <<"&", "l", "t", ";">>

\* sentences that end in '.' or in '!'
SentenceAlphabet == {"a", " ", ".", "!"}

Texts ==
    SeqsUpTo(Alphabet, MaxTextLen) \cup SeqsUpTo(MarkupAlphabet, MaxTextLen)
        \cup SeqsUpTo(SentenceAlphabet, MaxTextLen) \cup {AmpEntity, LtEntity}

\* no text is being prepared
IdleText ==
    /\ textPc = "off"
    /\ text = <<>>
    /\ rawText = <<>>
    /\ maxLength = 1
    /\ preserveWords = FALSE
    /\ sanitized = FALSE
    /\ chunks = <<>>

InputText ==
    /\ textPc = "input"
    /\ text \in Texts
    /\ rawText = text
    /\ maxLength \in 1..MaxLength
    /\ preserveWords \in BOOLEAN
    /\ sanitized = FALSE
    /\ chunks = <<>>

\* cleanText, err := SanitizeText(text)
Sanitize ==
    /\ textPc = "input"
    /\ ~sanitized
    /\ ~SanitizeText(text).err
    /\ text' = SanitizeText(text).text
    /\ sanitized' = TRUE
    /\ UNCHANGED <<asmVars, reqVars, respVars, limitVars, audioVars, facadeVars, textPc, rawText, maxLength, preserveWords, chunks>>

\* chunks := SplitTextByLength(cleanText, maxLength, preserveWords)
Split ==
    /\ textPc = "input"
    /\ chunks' = SplitTextByLength(text, maxLength, preserveWords)
    /\ textPc' = "split"
    /\ UNCHANGED <<asmVars, reqVars, respVars, limitVars, audioVars, facadeVars, text, rawText, maxLength, preserveWords, sanitized>>

NextText == Sanitize \/ Split

(***************************************************************************)
(* The assembly of two audio chunks.  The body of a chunk is described by  *)
(* what it is made of: an MP3 body by the declared sizes of its leading    *)
(* ID3v2 tags, the number of audio bytes after them and the number of      *)
(* bytes missing at its end; a WAV body by its chunks.                     *)
(***************************************************************************)
ID3Tag(declared) ==
    TagID3 \o <<3, 0, 0>> \o <<0, 0, 0, declared>> \o [k \in 1..declared |-> 7]

RECURSIVE ID3Tags(_)
ID3Tags(sizes) ==
    IF sizes = <<>> THEN <<>> ELSE ID3Tag(Head(sizes)) \o ID3Tags(Tail(sizes))

MP3Descs ==
    [tags : SeqsUpTo(0..MaxTag, 2), audio : (0..MaxAudio) \cup {10}, cut : {0, 1, 7}]

EncodeMP3(d, i) ==
    LET full == ID3Tags(d.tags) \o Payload(i, d.audio)
    IN  Take(full, Max(Len(full) - d.cut, 0))

TagLIST == <<76, 73, 83, 84>>
TagRIFX == <<82, 73, 70, 88>>

\* a PCM fmt body, with the cbSize field when longer than 16 bytes
FmtBody(n) == Take(<<1, 0, 1, 0, 64, 31, 0, 0, 128, 62, 0, 0, 2, 0, 16, 0, 22, 0>>, n)

WAVDescs ==
    {d \in [riff : BOOLEAN, fmtLen : {16, 18}, list : BOOLEAN, hasData : BOOLEAN,
            size : 0..MaxAudio, missing : 0..MaxAudio, tail : BOOLEAN] :
        /\ d.missing <= d.size
        /\ ~d.hasData => d.size = 0 /\ ~d.tail
        /\ d.missing > 0 => ~d.tail}

\* the bytes of the data chunk of d that the body holds
DataBytes(d, i) == Take(Payload(i, d.size), d.size - d.missing)

EncodeWAV(d, i) ==
    LET fmt == TagFmt \o PutUint32(d.fmtLen) \o FmtBody(d.fmtLen)
        list == IF d.list THEN TagLIST \o PutUint32(1) \o <<5>> \o <<0>> ELSE <<>>
        data == IF d.hasData
                THEN TagData \o PutUint32(d.size) \o DataBytes(d, i)
                       \o (IF d.missing = 0 /\ d.size % 2 = 1 THEN <<0>> ELSE <<>>)
                ELSE <<>>
        tail == IF d.tail THEN TagData \o PutUint32(2) \o <<9, 9>> ELSE <<>>
        rest == fmt \o list \o data \o tail
    IN  (IF d.riff THEN TagRIFF ELSE TagRIFX) \o PutUint32(4 + Len(rest)) \o TagWAVE \o rest

\* the body of chunk i (0 or 1) of the assembly
ChunkBytes(i) ==
    IF audioFormat = "mp3" THEN EncodeMP3(audioChunks[i + 1], i)
    ELSE EncodeWAV(audioChunks[i + 1], i)

Pending == [done |-> FALSE, out |-> <<>>, err |-> FALSE]
Done(r) == [done |-> TRUE, out |-> r.out, err |-> r.err]

\* no audio is being assembled
IdleAudio ==
    /\ audioPc = "off"
    /\ audioFormat = "mp3"
    /\ audioChunks = <<>>
    /\ streamed = Pending
    /\ copyBuf = 1
    /\ writes = <<>>
    /\ combined = Pending

\* chunk 0 is a complete body; chunk 1 is any body
InputAudio ==
    /\ audioPc = "input"
    /\ \/ /\ audioFormat = "mp3"
          /\ \E first \in {d \in MP3Descs : Len(d.tags) <= 1 /\ d.tags # <<1>>
                                            /\ d.audio = MaxAudio /\ d.cut = 0},
                second \in MP3Descs :
                  audioChunks = <<first, second>>
       \/ /\ audioFormat = "wav"
          /\ \E first \in {d \in WAVDescs : d.riff /\ d.hasData /\ d.size = MaxAudio
                                            /\ d.missing = 0 /\ ~d.tail},
                second \in WAVDescs :
                  audioChunks = <<first, second>>
    /\ streamed = Pending
    /\ copyBuf \in (1..MaxBuf) \cup {bufioMinSize}
    /\ writes = <<>>
    /\ combined = Pending

\* lines 855-862: the copy a worker makes of the body of chunk 1
StreamCopy ==
    /\ audioPc = "input"
    /\ ~streamed.done
    /\ streamed' = Done(Surgery(audioFormat, ChunkBytes(1)))
    /\ writes' = StreamWrites(audioFormat, ChunkBytes(1), copyBuf)
    /\ UNCHANGED <<asmVars, reqVars, respVars, limitVars, textVars, facadeVars, audioPc, audioFormat, audioChunks, copyBuf, combined>>

\* CombineAudioChunks(chunks, format) of the bodies of chunk 0 and chunk 1
Combine ==
    /\ audioPc = "input"
    /\ ~combined.done
    /\ combined' = Done(CombineAudioChunks(<<ChunkBytes(0), ChunkBytes(1)>>, audioFormat))
    /\ UNCHANGED <<asmVars, reqVars, respVars, limitVars, textVars, facadeVars, audioPc, audioFormat, audioChunks, streamed, copyBuf, writes>>

NextAudio == StreamCopy \/ Combine

(***************************************************************************)
(* The gateway: POST /v1/audio/speech.                                     *)
(***************************************************************************)
ValidVoices ==
    {"alloy", "ash", "ballad", "coral", "echo", "fable", "nova", "onyx", "sage",
     "shimmer", "verse"}
ValidFormats == {"mp3", "wav", "opus", "aac", "flac", "pcm"}

\* strings.TrimSpace(s) == "" for a voice or a format
Blank(s) == s \in {"", " "}

\* errors of the core that are no answer of the upstream
ErrSanitize == -6     \* SanitizeText: input text too long, part_000 line 779
ErrNoChunks == -7     \* "no valid text chunks found after processing"
ErrValidate == -8     \* the ValidationException of TTSRequest.Validate
\* requestsPerSecond of newRateLimiter when the configured one is not positive
defaultRequestsPerSecond == 10

NoError == [e |-> 0, wrapped |-> FALSE]
Plain(e) == [e |-> e, wrapped |-> FALSE]
\* fmt.Errorf("chunk 0: %w", err)
Wrapped(e) == [e |-> e, wrapped |-> TRUE]

\* the errors makeStreamRequest returns
UpstreamErrors ==
    (StatusCodes \ {200}) \cup {ErrNetwork, ErrNewRequest, ErrCtx, ErrMaxRetries, ErrBuild}

\* the dynamic type of an error, as the type switch of handleError sees it
ErrorType(err) ==
    IF err.wrapped THEN "wrapError"
    ELSE CASE err.e = 400 \/ err.e = ErrValidate -> "ValidationException"
           [] err.e = 401 -> "AuthenticationException"
           [] err.e = 429 -> "RateLimitException"
           [] err.e > 0 -> "APIException"
           [] err.e = ErrNetwork -> "NetworkException"
           [] err.e = ErrMaxRetries -> "TTSException"
           [] OTHER -> "error"

\* Handler.handleError: the status and the code of the JSON body
handleError(err) ==
    LET t == ErrorType(err)
    IN  CASE t = "ValidationException" -> [status |-> 400, code |-> "validation_error"]
          [] t = "AuthenticationException" -> [status |-> 401, code |-> "invalid_api_key"]
          [] t = "RateLimitException" -> [status |-> 429, code |-> "rate_limit_exceeded"]
          [] t = "NetworkException" -> [status |-> 503, code |-> "service_unavailable"]
          [] t = "APIException" ->
                [status |-> IF err.e = 0 THEN 500 ELSE err.e, code |-> "tts_error"]
          [] OTHER -> [status |-> 500, code |-> "internal_error"]

\* lines 373-386 of the handler: the defaults of the request
WithDefaults(r, dflt) ==
    [r EXCEPT !.voice = IF Blank(@) THEN "alloy" ELSE @,
              !.format = IF Blank(@) THEN "mp3" ELSE @,
              !.maxLength = IF @ = 0 THEN defaultMaxLength ELSE @,
              !.autoCombine = IF @ = "unset"
                              THEN (IF dflt THEN "true" ELSE "false") ELSE @]

\* the validation of the handler with the voice tested before the input
FacadeValidationVoiceFirst(r) ==
    IF ~r.json THEN "invalid_json"
    ELSE IF r.voice \notin ValidVoices THEN "invalid_voice"
    ELSE IF TrimSpace(r.input) = <<>> THEN "missing_input"
    ELSE IF r.format \notin ValidFormats THEN "invalid_format"
    ELSE "none"

\* lines 361-420 of the handler: the code of the first check that fails
FacadeValidation(r) ==
    IF ~r.json THEN "invalid_json"
    ELSE IF TrimSpace(r.input) = <<>> THEN "missing_input"
    ELSE IF r.voice \notin ValidVoices THEN "invalid_voice"
    ELSE IF r.format \notin ValidFormats THEN "invalid_format"
    ELSE "none"

\* TTSRequest.Validate: the request is refused (speed in hundredths)
Validate(input, voice, format, maxLen, validateLength, speed) ==
    \/ voice \notin ValidVoices
    \/ format \notin ValidFormats
    \/ TrimSpace(input) = <<>>
    \/ validateLength /\ Len(input) > maxLen
    \/ maxLen <= 0
    \/ speed # 0 /\ (speed < 25 \/ speed > 400)

\* GenerateSpeechStream up to makeStreamRequest: the error it returns (0: none)
ShortCoreError(r) ==
    LET clean == SanitizeText(r.input)
    IN  IF clean.err THEN ErrSanitize
        ELSE IF Validate(clean.text, r.voice, r.format, r.maxLength, TRUE, r.speed)
             THEN ErrValidate
             ELSE 0

\* the chunks of GenerateSpeechLongTextStreamConcurrent (preserveWords = true)
LongChunks(r) == SplitTextByLength(SanitizeText(r.input).text, r.maxLength, TRUE)

\* GenerateSpeechLongTextStreamConcurrent up to the request for chunk 0: the
\* error it returns
LongCoreError(r) ==
    IF SanitizeText(r.input).err THEN Plain(ErrSanitize)
    ELSE LET cs == LongChunks(r)
         IN  IF Len(cs) = 0 THEN Plain(ErrNoChunks)
             ELSE IF Validate(cs[1], r.voice, r.format, r.maxLength, FALSE, r.speed)
                  THEN (IF Len(cs) = 1 THEN Plain(ErrValidate) ELSE Wrapped(ErrValidate))
                  ELSE NoError

\* lines 786-793: the error of the request for chunk 0, as the run returns it
ChunkZeroError(e, n) == IF n = 1 THEN Plain(e) ELSE Wrapped(e)

\* Metadata["chunks_total"] of the stream the run returns, as the handler
\* reads it: line 742 returns the plain upstream stream for a single chunk
ChunksTotal(n) == IF n = 1 THEN 0 ELSE n

FacadeTexts == SeqsUpTo({"a", " ", "<", ">"}, MaxInputLen)
\* an input one byte longer than SanitizeText accepts
HugeText == [k \in 1..(maxSanitizeLen + 1) |-> "a"]

\* the request bodies sent; huge stands for an input of HugeText, which the
\* state does not spell out
SpeechRequests ==
    {r \in [json : {TRUE}, input : FacadeTexts, huge : BOOLEAN,
            voice : {"", "alloy", "bogus"}, format : {"", "wav", "bogus"},
            maxLength : {-1, 0} \cup (1..MaxLength) \cup {maxSanitizeLen + 1},
            speed : {0, 500}, autoCombine : {"unset", "true", "false"}] :
        r.huge => r.input = <<>>}
      \cup {[json |-> FALSE, input |-> <<>>, huge |-> FALSE, voice |-> "", format |-> "",
             maxLength |-> 0, speed |-> 0, autoCombine |-> "unset"]}

\* req.Input
InputOf(r) == IF r.huge THEN HugeText ELSE r.input

NoHeaders == [set |-> FALSE, format |-> "", chunks |-> 0, autoCombine |-> "", origLen |-> -1]

\* the audio of an upstream answer, and of a long-text run
StreamBody == Payload(0, 2)

IdleFacade ==
    /\ hpc = "off"
    /\ hreq = [json |-> FALSE, input |-> <<>>, huge |-> FALSE, voice |-> "", format |-> "",
               maxLength |-> 0, speed |-> 0, autoCombine |-> "unset"]
    /\ hdefault = FALSE
    /\ hpath = "none"
    /\ hstatus = 0
    /\ hcode = "none"
    /\ hhdr = NoHeaders
    /\ hbody = <<>>
    /\ hup = 0
    /\ hstream = <<>>
    /\ hn = 0
    /\ herr = NoError

InputFacade ==
    /\ hpc = "recv"
    /\ hreq \in SpeechRequests
    /\ hdefault \in BOOLEAN
    /\ hreq.autoCombine = "true" => ~hdefault
    /\ hreq.autoCombine = "false" => hdefault
    /\ hpath = "none"
    /\ hstatus = 0
    /\ hcode = "none"
    /\ hhdr = NoHeaders
    /\ hbody = <<>>
    /\ hup = 0
    /\ hstream = <<>>
    /\ hn = 0
    /\ herr = NoError

\* the request after the defaults of the handler
Req == WithDefaults([hreq EXCEPT !.input = InputOf(hreq)], hdefault)

\* what one step of the handler leaves behind
Respond(pc, path, status, code, hdr, body, up, stream, n, err) ==
    /\ hpc' = pc
    /\ hpath' = path
    /\ hstatus' = status
    /\ hcode' = code
    /\ hhdr' = hdr
    /\ hbody' = body
    /\ hup' = up
    /\ hstream' = stream
    /\ hn' = n
    /\ herr' = err
    /\ UNCHANGED <<asmVars, reqVars, respVars, limitVars, textVars, audioVars, hreq, hdefault>>

\* c.JSON(status, ErrorResponse{...}) and return
Answer(status, code, up, n, err) ==
    Respond("done", hpath, status, code, hhdr, hbody, up, hstream, n, err)

\* lines 361-420: a request that fails the validation of the handler
RejectInvalid ==
    /\ hpc = "recv"
    /\ FacadeValidation(Req) # "none"
    /\ Answer(400, FacadeValidation(Req), hup, hn, herr)

\* lines 438-451: too long a text without auto_combine
RejectTooLong ==
    /\ hpc = "recv"
    /\ FacadeValidation(Req) = "none"
    /\ Len(Req.input) > Req.maxLength /\ Req.autoCombine # "true"
    /\ Answer(400, "text_too_long", hup, hn, herr)

\* lines 432-436: h.handleLongTextStream
EnterLong ==
    /\ hpc = "recv"
    /\ FacadeValidation(Req) = "none"
    /\ Len(Req.input) > Req.maxLength /\ Req.autoCombine = "true"
    /\ Respond("long", "long", hstatus, hcode, hhdr, hbody, hup, hstream, hn, herr)

\* the short path entered without the test of the length
EnterShortAnyLength ==
    /\ hpc = "recv"
    /\ FacadeValidation(Req) = "none"
    /\ Respond("short", "short", hstatus, hcode, hhdr, hbody, hup, hstream, hn, herr)

\* line 452: h.handleShortTextStream
EnterShort ==
    /\ hpc = "recv"
    /\ FacadeValidation(Req) = "none"
    /\ ~(Len(Req.input) > Req.maxLength)
    /\ Respond("short", "short", hstatus, hcode, hhdr, hbody, hup, hstream, hn, herr)

\* GenerateSpeechStream refuses the request before any upstream request
ShortRefused ==
    /\ hpc = "short"
    /\ ShortCoreError(Req) # 0
    /\ LET err == Plain(ShortCoreError(Req))
       IN  Answer(handleError(err).status, handleError(err).code, hup, hn, err)

\* the upstream request of the short text fails
ShortUpstreamFails ==
    /\ hpc = "short"
    /\ ShortCoreError(Req) = 0
    /\ \E e \in UpstreamErrors :
          Answer(handleError(Plain(e)).status, handleError(Plain(e)).code,
                 hup + 1, hn, Plain(e))

\* the upstream answers the short text with a stream: the headers of lines
\* 489-497 are set
ShortUpstreamOK ==
    /\ hpc = "short"
    /\ ShortCoreError(Req) = 0
    /\ \E f \in {"mp3", "wav"} :
          Respond("copy", hpath, 200, hcode,
                  [set |-> TRUE, format |-> f, chunks |-> 1,
                   autoCombine |-> Req.autoCombine, origLen |-> -1],
                  hbody, hup + 1, StreamBody, hn, herr)

\* SplitTextByLength panics in GenerateSpeechLongTextStreamConcurrent
LongPanics(r) ==
    /\ ~SanitizeText(r.input).err
    /\ SplitTextByLengthPanics(SanitizeText(r.input).text, r.maxLength, TRUE)

\* the panic unwinds the handler; RecoveryMiddleware answers it with 500
LongSplitPanics ==
    /\ hpc = "long"
    /\ LongPanics(Req)
    /\ Respond("panicked", hpath, 500, "internal_error", hhdr, hbody, hup, hstream, hn, herr)

\* GenerateSpeechLongTextStreamConcurrent refuses the text before any
\* upstream request
LongRefused ==
    /\ hpc = "long"
    /\ ~LongPanics(Req)
    /\ LongCoreError(Req) # NoError
    /\ LET err == LongCoreError(Req)
       IN  Answer(handleError(err).status, handleError(err).code, hup,
                  IF SanitizeText(Req.input).err THEN 0 ELSE Len(LongChunks(Req)), err)

\* the request for chunk 0 fails
LongUpstreamFails ==
    /\ hpc = "long"
    /\ ~LongPanics(Req)
    /\ LongCoreError(Req) = NoError
    /\ \E e \in UpstreamErrors :
          LET n == Len(LongChunks(Req))
              err == ChunkZeroError(e, n)
          IN  Answer(handleError(err).status, handleError(err).code, hup + 1, n, err)

\* the request for chunk 0 is answered with a stream: the headers of lines
\* 553-564 are set
LongUpstreamOK ==
    /\ hpc = "long"
    /\ ~LongPanics(Req)
    /\ LongCoreError(Req) = NoError
    /\ \E f \in {"mp3", "wav"} :
          Respond("copy", hpath, 200, hcode,
                  [set |-> TRUE, format |-> f, chunks |-> ChunksTotal(Len(LongChunks(Req))),
                   autoCombine |-> "true", origLen |-> Len(Req.input)],
                  hbody, hup + 1, StreamBody, Len(LongChunks(Req)), herr)

\* a worker of the long-text run requests a later chunk
LongFetchNext ==
    /\ hpc = "copy"
    /\ hpath = "long"
    /\ hup < hn
    /\ Respond(hpc, hpath, hstatus, hcode, hhdr, hbody, hup + 1, hstream, hn, herr)

\* io.Copy(c.Writer, streamResp.Body): one Read and the Write of its bytes
CopyBytes ==
    /\ hpc = "copy"
    /\ hstream # <<>>
    /\ Respond(hpc, hpath, hstatus, hcode, hhdr, Append(hbody, Head(hstream)), hup,
               Tail(hstream), hn, herr)

\* a streaming error answered as an error of the core is
CopyFailsAnswered ==
    /\ hpc = "copy"
    /\ Answer(handleError(Plain(ErrNetwork)).status, handleError(Plain(ErrNetwork)).code,
              hup, hn, Plain(ErrNetwork))

\* io.Copy ends with an error of the stream or of the client connection: it
\* is logged
CopyFails ==
    /\ hpc = "copy"
    /\ Respond("aborted", hpath, hstatus, hcode, hhdr, hbody, hup, hstream, hn, herr)

\* io.Copy ends at the end of the stream
CopyEnds ==
    /\ hpc = "copy"
    /\ hstream = <<>>
    /\ hpath = "long" => hup = Max(hn, 1)
    /\ Answer(hstatus, hcode, hup, hn, herr)

NextFacade ==
    \/ RejectInvalid
    \/ RejectTooLong
    \/ EnterLong
    \/ EnterShort
    \/ ShortRefused
    \/ ShortUpstreamFails
    \/ ShortUpstreamOK
    \/ LongSplitPanics
    \/ LongRefused
    \/ LongUpstreamFails
    \/ LongUpstreamOK
    \/ LongFetchNext
    \/ CopyBytes
    \/ CopyFails
    \/ CopyEnds

(***************************************************************************)
(* The format of an upstream response (processStreamResponse) and the     *)
(* MIME tables of the models. A Content-Type is a sequence of pieces: a   *)
(* substring test is a test for a run of pieces.                          *)
(***************************************************************************)
MimePieces == {"audio/", "AUDIO/", "mpeg", "mp3", "wav", "opus", "aac", "flac", "pcm", ";", " "}

\* ContentTypeMap: the MIME type of each format
ContentTypeMap ==
    [f \in ValidFormats |-> <<"audio/", IF f = "mp3" THEN "mpeg" ELSE f>>]

\* FormatFromContentType: the format of each MIME type of the table
FormatFromContentType ==
    (<<"audio/", "mpeg">> :> "mp3") @@ (<<"audio/", "opus">> :> "opus")
      @@ (<<"audio/", "aac">> :> "aac") @@ (<<"audio/", "flac">> :> "flac")
      @@ (<<"audio/", "wav">> :> "wav") @@ (<<"audio/", "pcm">> :> "pcm")
      @@ (<<"audio/", "mp3">> :> "mp3")

\* strings.Split(contentType, ";")[0]
BeforeSemicolon(ct) ==
    LET at == {k \in 1..Len(ct) : ct[k] = ";"}
    IN  IF at = {} THEN ct ELSE Take(ct, SetMin(at) - 1)

\* GetFormatFromContentType: the parameters are cut off, the rest is
\* trimmed and looked up as it is written
GetFormatFromContentType(ct) ==
    LET mime == TrimSpace(BeforeSemicolon(ct))
    IN  IF mime \in DOMAIN FormatFromContentType
        THEN FormatFromContentType[mime]
        ELSE "mp3"

\* strings.ToLower
ToLower(ct) == [k \in 1..Len(ct) |-> IF ct[k] = "AUDIO/" THEN "audio/" ELSE ct[k]]

\* strings.Contains
Contains(s, sub) ==
    \E k \in 0..(Len(s) - Len(sub)) : SubSeq(s, k + 1, k + Len(sub)) = sub

containsAny(s, subs) == \E sub \in subs : Contains(s, sub)

\* lines 1176-1192: the switch over the lowered Content-Type, in its order
ActualFormat(ct) ==
    LET l == ToLower(ct)
    IN  IF containsAny(l, {<<"audio/", "mpeg">>, <<"audio/", "mp3">>}) THEN "mp3"
        ELSE IF containsAny(l, {<<"audio/", "wav">>}) THEN "wav"
        ELSE IF containsAny(l, {<<"audio/", "opus">>}) THEN "opus"
        ELSE IF containsAny(l, {<<"audio/", "aac">>}) THEN "aac"
        ELSE IF containsAny(l, {<<"audio/", "flac">>}) THEN "flac"
        ELSE "mp3"

ContentTypes == SeqsUpTo(MimePieces, MaxCtLen)

IdleResp ==
    /\ respPc = "off"
    /\ contentType = <<>>
    /\ requestedFormat = "mp3"
    /\ actualFormat = ""
    /\ lookedUp = ""

\* a 200 answer with any Content-Type to a request for any format
InputResp ==
    /\ respPc = "input"
    /\ contentType \in ContentTypes
    /\ requestedFormat \in ValidFormats
    /\ actualFormat = ""
    /\ lookedUp = ""

\* processStreamResponse: the format is recorded on the stream; the
\* requested format is only compared with it for the log
ProcessStreamResponse ==
    /\ respPc = "input"
    /\ actualFormat' = ActualFormat(contentType)
    /\ respPc' = "done"
    /\ UNCHANGED <<asmVars, reqVars, textVars, audioVars, facadeVars, limitVars,
                   contentType, requestedFormat, lookedUp>>

\* GetFormatFromContentType on the Content-Type of the stream
LookUpFormat ==
    /\ respPc = "done"
    /\ lookedUp = ""
    /\ lookedUp' = GetFormatFromContentType(contentType)
    /\ UNCHANGED <<asmVars, reqVars, textVars, audioVars, facadeVars, limitVars,
                   respPc, contentType, requestedFormat, actualFormat>>

NextResp == ProcessStreamResponse \/ LookUpFormat

(***************************************************************************)
(* The rate limiter of the gateway (RateLimitMiddleware). The clock counts *)
(* in parts of a second, TicksPerSecond of them to the second.             *)
(***************************************************************************)
\* newRateLimiter at time now
newRateLimiter(requestsPerSecond, now) ==
    LET rps == IF requestsPerSecond <= 0 THEN defaultRequestsPerSecond
               ELSE requestsPerSecond
    IN  [tokens |-> rps, maxTokens |-> rps, refillRate |-> rps, lastRefill |-> now]

\* int(elapsed.Seconds()): the whole seconds in a duration
WholeSeconds(d) == d \div TicksPerSecond

\* allow with a refill that is not capped at maxTokens
allowWithoutCap(r, now) ==
    LET tokensToAdd == WholeSeconds(now - r.lastRefill) * r.refillRate
        refilled == IF tokensToAdd > 0
                    THEN [r EXCEPT !.tokens = r.tokens + tokensToAdd, !.lastRefill = now]
                    ELSE r
    IN  IF refilled.tokens > 0
        THEN [lim |-> [refilled EXCEPT !.tokens = @ - 1], ok |-> TRUE]
        ELSE [lim |-> refilled, ok |-> FALSE]

\* rateLimiter.allow at time now: the limiter after the call and the answer
allow(r, now) ==
    LET tokensToAdd == WholeSeconds(now - r.lastRefill) * r.refillRate
        refilled == IF tokensToAdd > 0
                    THEN [r EXCEPT !.tokens = Min(r.maxTokens, r.tokens + tokensToAdd),
                                   !.lastRefill = now]
                    ELSE r
    IN  IF refilled.tokens > 0
        THEN [lim |-> [refilled EXCEPT !.tokens = @ - 1], ok |-> TRUE]
        ELSE [lim |-> refilled, ok |-> FALSE]

IdleLimit ==
    /\ limPc = "off"
    /\ limiter = newRateLimiter(1, 0)
    /\ clock = 0
    /\ limStatus = 0
    /\ limNext = FALSE

\* RateLimitMiddleware(requestsPerSecond) is installed
InputLimit ==
    /\ limPc = "on"
    /\ \E requestsPerSecond \in 0..MaxRate : limiter = newRateLimiter(requestsPerSecond, 0)
    /\ clock = 0
    /\ limStatus = 0
    /\ limNext = FALSE

\* time passes
Tick ==
    /\ limPc = "on"
    /\ clock < MaxClock
    /\ clock' = clock + 1
    /\ UNCHANGED <<asmVars, reqVars, textVars, audioVars, facadeVars, respVars,
                   limPc, limiter, limStatus, limNext>>

\* the handler of RateLimitMiddleware for one request: 429 and Abort, or
\* c.Next(); allow runs under the mutex of the limiter
LimitRequest ==
    /\ limPc = "on"
    /\ LET a == allow(limiter, clock)
       IN  /\ limiter' = a.lim
           /\ limNext' = a.ok
           /\ limStatus' = IF a.ok THEN 0 ELSE 429
    /\ UNCHANGED <<asmVars, reqVars, textVars, audioVars, facadeVars, respVars, limPc, clock>>

NextLimit == Tick \/ LimitRequest

vars == <<asmVars, reqVars, utilVars>>

\* a long-text run; its upstream requests are the fetch steps of the run
Init == InitAsm /\ InitReq /\ IdleText /\ IdleAudio /\ IdleFacade /\ IdleResp /\ IdleLimit

Next == NextAsm

Spec == Init /\ [][Next]_vars

\* the steps of each goroutine that the Go scheduler runs once they are
\* possible; failures of the upstream and the caller's choices are not among them
DispatcherStep == (\E w \in WorkerIds : Dispatch(w)) \/ DispatcherCancelled

WorkerStep(w) ==
    \/ WorkerExit(w)
    \/ WorkerCheck(w)
    \/ WorkerFetchOK(w)
    \/ WorkerWrite(w)
    \/ WorkerWriteClosed(w)
    \/ WorkerCopyEnd(w)

WriterStep ==
    \/ WriterRead0
    \/ WriterOutClosed
    \/ WriterEOF0
    \/ WriterRead
    \/ WriterPipeEOF
    \/ WriterPipeErr
    \/ WriterWait

\* the caller keeps reading out.Body
CallerStep == CallerRead \/ CallerEnd

\* the Go scheduler runs every goroutine that can take a step; the upstream
\* answers and the caller reads
Fairness ==
    /\ WF_vars(FetchFirstOK)
    /\ WF_vars(DispatcherStep)
    /\ \A w \in WorkerIds : WF_vars(WorkerStep(w))
    /\ WF_vars(WriterStep)
    /\ WF_vars(CallerStep)

\* a long-text run whose goroutines are scheduled fairly
FairSpec == Init /\ [][Next]_vars /\ Fairness

(***************************************************************************)
(* Properties of the long-text stream.                                     *)
(***************************************************************************)
IsPrefix(a, b) == Len(a) <= Len(b) /\ a = Take(b, Len(a))

\* s_i: chunk 0's body as the upstream sent it, and for i >= 1 the output of
\* the surgery of chunk i's body
SegmentOf(i) ==
    IF i = 0 THEN Body(upstream[0], 0)
    ELSE ChunkSurgery[upstream[i]][i].out

RECURSIVE SegmentsUpTo(_)
SegmentsUpTo(i) == IF i < 0 THEN <<>> ELSE SegmentsUpTo(i - 1) \o SegmentOf(i)

ExpectedOutput == SegmentsUpTo(nChunks - 1)

\* C1: the bytes read from the output stream are at every moment a prefix of
\* s_0 ++ s_1 ++ ... ++ s_(N-1), and when the stream ends cleanly (all N
\* fetches succeeded) they are exactly that concatenation, whatever worker
\* fetched which chunk and in whatever order the fetches completed
C1_OrderedConcatenation ==
    /\ IsPrefix(received, ExpectedOutput)
    /\ callerState = "eof" => /\ fetched = 1..(nChunks - 1)
                              /\ received = ExpectedOutput

\* a run of MaxChunks chunks that ended cleanly although a later chunk was
\* fetched before an earlier one
C1_Witness ==
    /\ callerState = "eof"
    /\ nChunks = MaxChunks
    /\ overtaken
    /\ received = ExpectedOutput
    /\ \E i \in 1..(nChunks - 1) : ans[i] # ans[0]

\* C2: the output ends cleanly only if chunk 0 was copied to its end and
\* every pipe was copied up to a clean close of its write side; if a worker
\* closed its pipe with an error the output never ends cleanly
C2_CleanEndOnlyAfterAllPipes ==
    /\ outp.w.st = "eof" =>
          /\ trem = <<>>
          /\ \A i \in 1..(nChunks - 1) :
                /\ pipes[i].w.st = "eof"
                /\ pipes[i].buf = <<>>
                /\ pipes[i].rclosed
    /\ (\E i \in 1..(nChunks - 1) : pipes[i].w.st = "err") => outp.w.st # "eof"

\* a worker failed and the caller saw the stream end with an error
C2_Witness ==
    /\ callerState = "err"
    /\ \E i \in 1..(nChunks - 1) : pipes[i].w.st = "err" /\ pipes[i].w.e.cause = "upstream"

\* C12: every chunk index is sent on the jobs channel at most once and a
\* fetch is started for it at most once, by the worker that received it; no
\* two workers hold the same index; chunk 0 is fetched once; a run that ends
\* cleanly has started exactly one fetch for each of its N chunks
C12_AtMostOneFetchPerChunk ==
    /\ \A i \in 1..(MaxChunks - 1) : sent[i] <= 1 /\ issued[i] <= sent[i]
    /\ issued[0] <= 1
    /\ sent[0] = 0
    /\ \A i \in ChunkIdx : i >= nChunks => sent[i] = 0 /\ issued[i] = 0
    /\ \A v, w \in Workers : v # w /\ widx[v] # 0 => widx[v] # widx[w]
    /\ \A w \in Workers : wpc[w] \in {"fetch", "copy", "write"} => issued[widx[w]] = 1
    /\ callerState = "eof" => \A i \in 0..(nChunks - 1) : issued[i] = 1

\* a clean end of a run of MaxChunks chunks with two or more workers in
\* which a later chunk was fetched before an earlier one
C12_Witness ==
    /\ callerState = "eof"
    /\ tpc = "done"
    /\ nChunks = MaxChunks
    /\ overtaken
    /\ Cardinality(Workers) >= 2
    /\ \A i \in 0..(nChunks - 1) : issued[i] = 1

\* C13: if the fetch of chunk 0 fails no stream is returned: no byte is ever
\* produced, no worker, dispatcher or writer task is started, and no fetch
\* is started for a chunk index >= 1
C13_FirstChunkFailureAborts ==
    phase = "aborted" =>
        /\ received = <<>>
        /\ outp = NewPipe
        /\ trem = <<>>
        /\ callerState = "reading"
        /\ \A w \in WorkerIds : wpc[w] = "off"
        /\ tpc = "off"
        /\ jobsNext = 1 /\ ~jobsClosed
        /\ \A i \in ChunkIdx : sent[i] = 0
        /\ \A i \in 1..(MaxChunks - 1) : issued[i] = 0 /\ ans[i] = None
        /\ issued[0] = 1

\* the fetch of chunk 0 of a run of MaxChunks chunks has failed
C13_Witness ==
    /\ phase = "aborted"
    /\ nChunks = MaxChunks
    /\ ctxDone
    /\ \A i \in 1..(nChunks - 1) : pipes[i].rclosed

\* a worker closed its pipe with an error
WorkerFailed == \E i \in 1..(nChunks - 1) : pipes[i].w.st = "err"

\* the writer task is blocked in pipes[i].r.Read with nothing to read
WriterBlockedOn(i) ==
    /\ tpc \in {"read", "write"}
    /\ WriterPReady
    /\ ti = i
    /\ pipes[i].buf = <<>>

\* the write side of pipes[i] is open and no worker is left to close it: the
\* index was never sent and the jobs channel is closed, or the worker that
\* received it has returned
WillNotBeClosed(i) ==
    /\ pipes[i].w.st = "open"
    /\ i >= jobsNext => jobsClosed
    /\ \A w \in Workers : widx[w] = i => wpc[w] = "done"

\* C3: once a worker has failed the group context is cancelled and the
\* writer task is never left blocked on a pipe that no worker will close
C3_NoBlockedWriterAfterFailure ==
    WorkerFailed =>
        /\ ctxDone
        /\ ~\E i \in 1..(nChunks - 1) : WriterBlockedOn(i) /\ WillNotBeClosed(i)

\* the errors of the workers that failed
FailedWorkerErrors == {pipes[i].w.e : i \in {j \in 1..(nChunks - 1) : pipes[j].w.st = "err"}}

\* C4: when two or more workers failed and the caller is handed the error of
\* a worker, it is the error of the worker that failed first (the one whose
\* failure cancelled the group context)
C4_FirstErrorDelivered ==
    (/\ callerState = "err"
     /\ firstErr # NoErr
     /\ Cardinality(FailedWorkerErrors) >= 2
     /\ callerErr.op \in {"fetch", "copy"})
        => Unwrap(callerErr) = firstErr

\* C5: after the request context is cancelled from outside, the writer task
\* is never left blocked on a pipe whose write side nobody will close
C5_CancelUnblocksWriter ==
    extCancel => ~\E i \in 1..(nChunks - 1) : WriterBlockedOn(i) /\ WillNotBeClosed(i)

\* something outside the assembler went wrong: a fetch or a body failed, the
\* request context was cancelled, or the caller stopped reading
Disturbed ==
    \/ extCancel
    \/ callerState = "closed"
    \/ phase = "aborted"
    \/ outp.w.e.op = "body0" /\ outp.w.e.cause = "read"
    \/ \E i \in 1..(nChunks - 1) :
          /\ pipes[i].w.st = "err"
          /\ pipes[i].w.e.cause \in {"upstream", "read", "surgery"}

\* C6: if every fetch succeeds, nobody cancels and the caller keeps reading,
\* the caller eventually reads a clean end of stream (and by then, C1, all
\* the bytes)
C6_CleanEndReached == <>(callerState = "eof" \/ Disturbed)

\* a clean end with one worker serving every pipe in turn
C6_Witness ==
    /\ callerState = "eof"
    /\ ~Disturbed
    /\ nChunks = MaxChunks
    /\ WorkerCount(cfgMaxConc, nChunks, globalMaxConcurrent) = 1
    /\ tpc = "done"

\* upstream requests of several calls; no long-text run is in progress
InitIdleAsm ==
    /\ InitAsm
    /\ nChunks = 2
    /\ cfgMaxConc = 1
    /\ upstream = [i \in ChunkIdx |-> "mp3"]

InitIdle == InitIdleAsm /\ InitReq /\ IdleText /\ IdleAudio /\ IdleFacade /\ IdleResp /\ IdleLimit

SpecReq == InitIdle /\ [][NextReq]_vars

(***************************************************************************)
(* Properties of the upstream requests.                                    *)
(***************************************************************************)
\* the calls on client cl whose position is one of pcs
CallsAt(cl, pcs) == {c \in Calls : rclient[c] = cl /\ rpc[c] \in pcs}

\* C7: the requests of one client that are dialing, retrying or have an open
\* response body are never more than the capacity of its semaphore
C7_OpenStreamsWithinCapacity ==
    \A cl \in Clients :
        Cardinality(CallsAt(cl, {"build", "sleep", "dial", "open"})) <= SemaphoreCap(cl)

\* C8: over all the clients of the process, the requests that are dialing or
\* retrying are never more than the capacity of the semaphore
C8_ProcessWideCapacity ==
    Cardinality({c \in Calls : rpc[c] \in {"build", "sleep", "dial"}}) <= SemCap

\* C9 as stated: the tokens held of a semaphore are as many as the calls of
\* makeStreamRequest on its client that have not returned
C9_TokensEqualExecutingCalls ==
    \A cl \in Clients :
        sem[cl] = Cardinality(CallsAt(cl, {"acquire", "build", "sleep", "dial"}))

\* C9: the tokens held of a semaphore are as many as the calls on its client
\* that acquired a token and have not returned, however the other calls
\* ended; no token is held when no call is executing
C9_TokensEqualCallsPastAcquire ==
    \A cl \in Clients :
        /\ sem[cl] = Cardinality(CallsAt(cl, {"build", "sleep", "dial"}))
        /\ sem[cl] <= SemaphoreCap(cl)
        /\ CallsAt(cl, {"acquire", "build", "sleep", "dial"}) = {} => sem[cl] = 0

\* every call has returned, one of them cancelled during a retry sleep after
\* a failed attempt, and no token is held
C9_Witness ==
    /\ \A c \in Calls : rpc[c] \in {"failed", "open", "closed"}
    /\ \E c \in Calls : rret[c] = ErrCtx /\ rdials[c] >= 1
    /\ \E c \in Calls : rret[c] # ErrCtx
    /\ \A c \in Calls : rclient[c] = 1
    /\ \A cl \in Clients : sem[cl] = 0

\* C10: a request makes at most MaxRetries + 1 HTTP attempts, and after an
\* answer with status 400, 401, 403 or 404 it makes no further attempt and
\* has returned the error of that status
C10_BoundedAttempts ==
    [][\A c \in Calls :
          /\ rdials'[c] <= MaxRetries + 1
          /\ rstatus'[c] \in {400, 401, 403, 404} =>
                /\ rpc'[c] = "failed"
                /\ rret'[c] = rstatus'[c]
          /\ rstatus[c] \in {400, 401, 403, 404} => rdials'[c] = rdials[c]]_vars

\* one request used all its attempts, another was answered 404 at once
C10_Witness ==
    /\ \E c \in Calls : rdials[c] = MaxRetries + 1 /\ rpc[c] = "failed" /\ rret[c] = 503
    /\ \E c \in Calls : rdials[c] = 1 /\ rpc[c] = "failed" /\ rret[c] = 404

\* C11 as stated: an attempt is followed by another one exactly when attempts
\* remain and it ended in a transport error or in one of the statuses 429,
\* 500, 502, 503, 504; any other status ends the request
C11_RetryOnlyListedStatuses ==
    [][\A c \in Calls :
          rdials'[c] = rdials[c] + 1 =>
             (rpc'[c] = "sleep" <=>
                 /\ rattempt[c] < MaxRetries
                 /\ rstatus'[c] \in {0, 429, 500, 502, 503, 504})]_vars

\* C11: an attempt is followed by the backoff of another one exactly when
\* attempts remain and it ended in a transport error or in a status other
\* than 200, 400, 401, 403 and 404
C11_RetryUnlessListedStatuses ==
    [][\A c \in Calls :
          rdials'[c] = rdials[c] + 1 =>
             (rpc'[c] = "sleep" <=>
                 /\ rattempt[c] < MaxRetries
                 /\ rstatus'[c] \notin {200, 400, 401, 403, 404})]_vars

\* a request is in the backoff after an answer with status 302
C11_Witness ==
    \E c \in Calls : rpc[c] = "sleep" /\ rstatus[c] = 302 /\ rdials[c] = 1

(***************************************************************************)
(* The preparation of a text alone.                                        *)
(***************************************************************************)
InitText == InitIdleAsm /\ InitReq /\ InputText /\ IdleAudio /\ IdleFacade /\ IdleResp /\ IdleLimit

SpecText == InitText /\ [][NextText]_vars

\* C14: every chunk returned by SplitTextByLength is non-empty and at most
\* maxLength bytes long, for every text, every maxLength > 0 and both values
\* of preserveWords
C14_ChunkLengthWithinMaxLength ==
    textPc = "split" => \A k \in 1..Len(chunks) : 0 < Len(chunks[k]) /\ Len(chunks[k]) <= maxLength

\* a sentence of one word longer than maxLength was split with preserveWords
C14_Witness ==
    /\ textPc = "split"
    /\ preserveWords
    /\ sanitized
    /\ Len(text) > maxLength
    /\ \A k \in 1..Len(text) : text[k] = "a"
    /\ Len(chunks) >= 2

\* C15: SplitTextByLength returns zero chunks exactly when the sanitized text
\* is empty
C15_NoChunksOnlyForEmptyText ==
    textPc = "split" /\ sanitized => (Len(chunks) = 0 <=> text = <<>>)

(***************************************************************************)
(* The assembly of two audio chunks alone.                                 *)
(***************************************************************************)
InitAudio == InitIdleAsm /\ InitReq /\ IdleText /\ InputAudio /\ IdleFacade /\ IdleResp /\ IdleLimit

SpecAudio == InitAudio /\ [][NextAudio]_vars

\* C16: the streaming MP3 copy with skipID3 leaves a body that does not begin
\* with 'ID3', and any body shorter than 10 bytes, unchanged and reports no
\* error
C16_TaglessMP3Untouched ==
    streamed.done /\ audioFormat = "mp3"
    /\ (Take(ChunkBytes(1), 3) # TagID3 \/ Len(ChunkBytes(1)) < 10)
        => streamed.out = ChunkBytes(1) /\ ~streamed.err

\* a body of fewer than 10 bytes that begins with 'ID3' was copied
C16_Witness ==
    /\ streamed.done /\ audioFormat = "mp3"
    /\ Take(ChunkBytes(1), 3) = TagID3
    /\ Len(ChunkBytes(1)) < 10
    /\ streamed.out = ChunkBytes(1)

\* C17: what is emitted for a non-first MP3 chunk of at least 10 bytes after
\* skipID3, by the streaming copy and by the offline combine, never begins
\* with 'ID3'
C17_NoID3AfterSkip ==
    /\ streamed.done /\ audioFormat = "mp3" /\ Len(ChunkBytes(1)) >= 10
          => Take(streamed.out, 3) # TagID3
    /\ combined.done /\ audioFormat = "mp3" /\ Len(ChunkBytes(1)) >= 10
          => Take(Drop(combined.out, Len(ChunkBytes(0))), 3) # TagID3

\* C18: the streaming copy of a non-first WAV chunk writes exactly the size
\* bytes of its first data chunk and nothing else
C18_OnlyDataPayloadStreamed ==
    streamed.done /\ audioFormat = "wav"
    /\ audioChunks[2].riff /\ audioChunks[2].hasData /\ audioChunks[2].missing = 0
        => streamed.out = Payload(1, audioChunks[2].size) /\ ~streamed.err

\* a WAV with an odd-sized chunk before an odd-sized data chunk, and a second
\* data chunk after it, was copied
C18_Witness ==
    /\ streamed.done /\ audioFormat = "wav"
    /\ audioChunks[2].riff /\ audioChunks[2].list /\ audioChunks[2].hasData
    /\ audioChunks[2].size = 1 /\ audioChunks[2].tail
    /\ audioChunks[2].fmtLen = 18
    /\ streamed.out = Payload(1, 1)

\* C19: the streaming copy of a non-first WAV chunk ends with an error
\* whenever the body does not start with RIFF....WAVE, has no data chunk, or
\* ends before the declared size of the data chunk
C19_MalformedWAVFails ==
    streamed.done /\ audioFormat = "wav"
    /\ (~audioChunks[2].riff \/ ~audioChunks[2].hasData \/ audioChunks[2].missing > 0)
        => streamed.err

\* the audio data combineWAVChunks gathers from the two chunks
GatheredAudio ==
    DataBytes(audioChunks[1], 0)
      \o (IF audioChunks[2].riff THEN DataBytes(audioChunks[2], 1) ELSE ChunkBytes(1))

\* the offline combine of two WAV chunks yields a RIFF/WAVE file whose sizes
\* are those of its content
CombinedWAVFraming ==
    combined.done /\ audioFormat = "wav" /\ ~combined.err
        => LET out == combined.out
               audio == GatheredAudio
           IN  /\ Take(out, 4) = TagRIFF
               /\ SubSeq(out, 9, 12) = TagWAVE
               /\ LittleEndianUint32(SubSeq(out, 5, 8)) = Len(out) - 8
               /\ Drop(out, Len(out) - Len(audio)) = audio
               /\ SubSeq(out, Len(out) - Len(audio) - 7, Len(out) - Len(audio))
                     = TagData \o PutUint32(Len(audio))

\* C20: the offline combine of two WAV chunks whose first parses yields a
\* RIFF/WAVE file with fileSize = length - 8, dataSize = the sum of the
\* payload sizes, and the fmt body of the first chunk verbatim
C20_CombinedWAVKeepsFmt ==
    /\ CombinedWAVFraming
    /\ combined.done /\ audioFormat = "wav" /\ ~combined.err
          => SubSeq(combined.out, 13, 20 + audioChunks[1].fmtLen)
                = TagFmt \o PutUint32(audioChunks[1].fmtLen) \o FmtBody(audioChunks[1].fmtLen)

\* a chunk description of a WAV that starts with RIFF....WAVE and holds its
\* whole data chunk
WellFormedWAV(d) == d.riff /\ d.hasData /\ d.missing = 0

\* C21: the offline combine of two well-formed WAV chunks with the same fmt
\* chunk succeeds and returns 44 bytes plus the data payloads of the chunks
C21_CombinedWAVLength ==
    combined.done /\ audioFormat = "wav"
    /\ WellFormedWAV(audioChunks[1]) /\ WellFormedWAV(audioChunks[2])
    /\ audioChunks[1].fmtLen = audioChunks[2].fmtLen
        => /\ ~combined.err
           /\ Len(combined.out) = 44 + audioChunks[1].size + audioChunks[2].size

(***************************************************************************)
(* The gateway alone.                                                      *)
(***************************************************************************)
InitFacade == InitIdleAsm /\ InitReq /\ IdleText /\ IdleAudio /\ InputFacade /\ IdleResp /\ IdleLimit

SpecFacade == InitFacade /\ [][NextFacade]_vars

\* the handler has returned
Returned == hpc \in {"done", "aborted"}

\* C22: a request whose input is blank, whose voice or whose response_format
\* is outside its enumeration, or whose input is longer than max_length with
\* auto_combine off, is answered 400 with the code of the first of these
\* checks that fails, and no upstream request is made for it.
C22_ValidationFailuresRejected ==
    Returned /\ hreq.json =>
        /\ TrimSpace(Req.input) = <<>> =>
              hstatus = 400 /\ hcode = "missing_input" /\ hup = 0
        /\ TrimSpace(Req.input) # <<>> /\ Req.voice \notin ValidVoices =>
              hstatus = 400 /\ hcode = "invalid_voice" /\ hup = 0
        /\ TrimSpace(Req.input) # <<>> /\ Req.voice \in ValidVoices
             /\ Req.format \notin ValidFormats =>
              hstatus = 400 /\ hcode = "invalid_format" /\ hup = 0
        /\ TrimSpace(Req.input) # <<>> /\ Req.voice \in ValidVoices
             /\ Req.format \in ValidFormats
             /\ Len(Req.input) > Req.maxLength /\ Req.autoCombine = "false" =>
              hstatus = 400 /\ hcode = "text_too_long" /\ hup = 0

\* a request with a blank input and an unknown voice has been answered
C22_Witness ==
    /\ Returned /\ hreq.json
    /\ TrimSpace(Req.input) = <<>> /\ Req.voice \notin ValidVoices
    /\ Req.format \notin ValidFormats
    /\ hcode = "missing_input"

\* the request passes the validation of the handler
ValidRequest == FacadeValidation(Req) = "none"

\* the handler has answered 200 and copied the stream to its end
Streamed == hpc = "done" /\ hstatus = 200

\* C23 (as stated): a valid request takes the short path, with exactly one
\* upstream request whose body is copied unchanged, exactly if its input
\* is no longer than max_length; a longer one takes the long path exactly
\* if auto_combine is true and is answered 400 text_too_long otherwise.
C23_ShortPathExactlyOneRequest ==
    Returned /\ ValidRequest =>
        IF Len(Req.input) <= Req.maxLength
        THEN hpath = "short" /\ hup = 1 /\ (Streamed => hbody = StreamBody)
        ELSE IF Req.autoCombine = "true"
             THEN hpath = "long"
             ELSE hpath = "none" /\ hstatus = 400 /\ hcode = "text_too_long"

\* C23 (amended): the path is chosen as stated; the short path makes at
\* most one upstream stream request, and exactly one unless the core
\* refuses the request (sanitized text blank, speed out of range, input
\* beyond the limit of the sanitizer); a stream copied to its end is the
\* upstream body unchanged.
C23_ShortPathIffWithinMaxLength ==
    Returned /\ ValidRequest =>
        IF Len(Req.input) <= Req.maxLength
        THEN /\ hpath = "short"
             /\ hup = (IF ShortCoreError(Req) = 0 THEN 1 ELSE 0)
             /\ Streamed => hbody = StreamBody
        ELSE IF Req.autoCombine = "true"
             THEN hpath = "long"
             ELSE hpath = "none" /\ hstatus = 400 /\ hcode = "text_too_long"

\* a request whose input is exactly max_length long has been streamed on
\* the short path
C23_Witness ==
    /\ Streamed /\ ValidRequest
    /\ Len(Req.input) = Req.maxLength
    /\ hpath = "short" /\ hup = 1 /\ hbody = StreamBody

\* C24: on every successful response X-Chunks-Combined is 1 on the short
\* path and the number of chunks synthesized on the long path, also when
\* the sanitized text of a long-path request fits into a single chunk.
C24_ChunksCombinedHeader ==
    hhdr.set =>
        /\ hpath = "short" => hhdr.chunks = 1
        /\ hpath = "long" => hhdr.chunks = hn /\ hn >= 1

\* C25: the headers and the status 200 are set before the first body byte,
\* and once a body byte is written no step (a streaming error included)
\* changes the status or the headers or writes a JSON error body.
C25_StatusPrecedesBody ==
    /\ [](hbody # <<>> => hstatus = 200 /\ hhdr.set /\ hcode = "none")
    /\ [][hbody # <<>> =>
            hstatus' = hstatus /\ hcode' = hcode /\ hhdr' = hhdr
            /\ Len(hbody') >= Len(hbody)]_vars

\* a streaming error after the first body byte: the response stays 200 and
\* its body is short
C25_Witness ==
    /\ hpc = "aborted"
    /\ hbody # <<>> /\ hstream # <<>>
    /\ hstatus = 200 /\ hcode = "none"

\* the error kinds with a status of their own
MappedKinds == {400, 401, 403, 404, 429, 503, ErrNetwork, ErrValidate}

\* the status the gateway owes to an error of the core
MappedStatus(e) ==
    IF e = ErrValidate THEN 400 ELSE IF e = ErrNetwork THEN 503 ELSE e

\* C26: a failure of the core before the first body byte is answered with a
\* JSON error body whose status is the mapped status of the error kind
\* (validation 400, authentication 401, forbidden 403, not found 404, rate
\* limit 429, network 503, upstream 5xx its status), on the long path (a
\* failure of chunk 0) as on the short path.
C26_MappedStatusOnBothPaths ==
    hpc = "done" /\ herr.e \in MappedKinds =>
        hstatus = MappedStatus(herr.e) /\ hcode # "none" /\ hbody = <<>>

\* C27: a request whose input is longer than the sanitizer accepts (50000
\* bytes) is answered 400 on the short path as on the long path, and no
\* upstream request is made for it.
C27_SanitizerFailureIs400 ==
    Returned /\ hpath # "none" /\ Len(Req.input) > maxSanitizeLen =>
        hstatus = 400 /\ hup = 0

\* the scan of the sanitizer as it is described: a span from '<' to the
\* next '>' is dropped and an unmatched '<' kept; an entity '&name;' with a
\* name shorter than 10 characters holding no white space, angle bracket
\* or ampersand is dropped, any other '&' becomes a space; a quote becomes
\* '"'; a '>' is dropped
RECURSIVE StatedScan(_, _)
StatedScan(t, i) ==
    IF i > Len(t) THEN <<>>
    ELSE IF t[i] = "<"
    THEN LET closing == {j \in (i + 1)..Len(t) : t[j] = ">"}
         IN  IF closing # {} THEN StatedScan(t, SetMin(closing) + 1)
             ELSE <<"<">> \o StatedScan(t, i + 1)
    ELSE IF t[i] = "&"
    THEN LET ends == {j \in (i + 1)..Len(t) :
                         /\ t[j] = ";"
                         /\ j - i - 1 < 10
                         /\ \A k \in (i + 1)..(j - 1) :
                               t[k] \notin {" ", "\t", "\n", "\r", "<", ">", "&", ";"}}
         IN  IF ends # {} THEN StatedScan(t, SetMin(ends) + 1)
             ELSE <<" ">> \o StatedScan(t, i + 1)
    ELSE IF t[i] \in {"\"", "'", Backquote} THEN <<"\"">> \o StatedScan(t, i + 1)
    ELSE IF t[i] # ">" THEN <<t[i]>> \o StatedScan(t, i + 1)
    ELSE StatedScan(t, i + 1)

\* C28: SanitizeText drops every span from '<' to the next '>', keeps an
\* unmatched '<', drops every entity '&name;' with a name shorter than 10
\* characters ('&amp;' and '&lt;' disappear), turns each quote into '"',
\* collapses each run of white space to one space and trims; its result
\* holds no '>' and no '&'.
C28_SanitizeTextAsDescribed ==
    sanitized =>
        /\ text = TrimSpace(collapseSpace(StatedScan(rawText, 1)))
        /\ \A k \in 1..Len(text) : text[k] \notin {">", "&"}

\* the pieces of a copy, joined
RECURSIVE JoinPieces(_)
JoinPieces(ps) == IF ps = <<>> THEN <<>> ELSE Head(ps) \o JoinPieces(Tail(ps))

\* the surgery that the observed format of chunk 0 selects, on chunk i
FirstFormatSurgery(i) == Surgery(KindFormat(ans[0]), Body(upstream[i], i))

\* C29: every chunk 1..N-1 is copied with the surgery that the observed
\* format of chunk 0 selects, also when the upstream answers a later chunk
\* in another format.
C29_SurgeryOfFirstFormat ==
    \A w \in WorkerIds :
        wpc[w] = "copy" =>
            /\ JoinPieces(wrem[w]) = FirstFormatSurgery(widx[w]).out
            /\ wserr[w] = FirstFormatSurgery(widx[w]).err

\* W as it is stated: min(M, N-1, globalMaxConcurrent), M being 3 when not
\* positive
StatedWorkers(m, n, g) ==
    Min(Min(IF m <= 0 THEN defaultLongTextStreamMaxConcurrent ELSE m, n - 1), g)

\* workerCount is the stated W and at least 1, over a range of
\* configurations in which each of the three limits binds
WorkerCountAsStated ==
    \A m \in (-1)..(MaxConc + 2), n \in 2..(MaxChunks + 1), g \in 1..(MaxConc + 1) :
        WorkerCount(m, n, g) = StatedWorkers(m, n, g) /\ WorkerCount(m, n, g) >= 1

\* the workers with a fetch of their chunk in progress
Fetching == {w \in WorkerIds : wpc[w] \in {"fetch", "copy", "write"}}

\* C30: for every configuration and every N >= 2 the run starts exactly
\* W = min(M, N-1, globalMaxConcurrent) workers (M being 3 when not
\* positive), W is at least 1, and at no moment more than W fetches of the
\* chunks 1..N-1 are in progress.
C30_WorkerCountBoundsFetches ==
    /\ WorkerCountAsStated
    /\ phase = "running" =>
          /\ Cardinality(Workers) = StatedWorkers(cfgMaxConc, nChunks, globalMaxConcurrent)
          /\ Cardinality(Fetching) <= StatedWorkers(cfgMaxConc, nChunks, globalMaxConcurrent)
          /\ \A v, w \in Fetching : v # w => widx[v] # widx[w]
    /\ phase # "running" => Fetching = {}

\* two workers, as many as W allows, have their fetches in progress
C30_Witness ==
    /\ phase = "running"
    /\ StatedWorkers(cfgMaxConc, nChunks, globalMaxConcurrent) = 2
    /\ Cardinality({w \in WorkerIds : wpc[w] = "fetch"}) = 2

\* C31: the bytes a worker has handed to its pipe and the writer task has
\* not consumed never exceed the configured buffer size B.  A pipe holds
\* the unread rest of one Write (the worker blocks in it), so this is: no
\* Write of the copy is longer than len(buf).
C31_PipeHoldsAtMostBufSize ==
    streamed.done => \A k \in 1..Len(writes) : Len(writes[k]) <= copyBuf

\* the chunk indices handed to a worker
Handed == {i \in PipeIdx : sent[i] > 0}

\* C32 (as stated): the chunk indices handed to workers are a prefix 1..m
\* of the job sequence, and m is at most k + W, k being the index the
\* writer task is copying (0 while it copies chunk 0): at most W chunks are
\* fetched ahead of the chunk being written, whatever the upstream answers,
\* also for chunks whose surgery output is empty.
C32_FetchAheadWithinWorkers ==
    phase = "running" =>
        /\ Handed = 1..Cardinality(Handed)
        /\ Cardinality(Handed) <= ti + Cardinality(Workers)

\* the chunks ahead of the writer task whose copy has ended cleanly: their
\* surgery output is empty, or the worker would be blocked in its Write
EndedAhead == {i \in Handed : i > ti /\ pipes[i].w.st = "eof"}

\* C32 (amended): the indices handed to workers are a prefix 1..m, and m is
\* at most k + W + E, E being the number of chunks ahead of the writer task
\* whose copy has ended without a byte; each of those has an empty surgery
\* output.
C32_FetchAheadButForEmptyChunks ==
    phase = "running" =>
        /\ Handed = 1..Cardinality(Handed)
        /\ Cardinality(Handed) <= ti + Cardinality(Workers) + Cardinality(EndedAhead)
        /\ \A i \in EndedAhead : ChunkSurgery[upstream[i]][i].out = <<>>

\* a worker has ended the copy of an empty chunk and was handed the next
\* index while the writer task copies chunk 0
C32_Witness ==
    /\ phase = "running"
    /\ ti = 0
    /\ EndedAhead = {1}
    /\ Cardinality(Handed) = Cardinality(Workers) + 1

\* the long-text run has wound up: the group context is cancelled, every
\* worker has returned, the writer task has ended, and no pipe that was
\* handed to a worker is left with its write side open
WoundUp ==
    /\ ctxDone
    /\ tpc = "done"
    /\ \A w \in Workers : wpc[w] = "done"
    /\ \A i \in Handed : pipes[i].w.st # "open"

\* C33: if the caller closes the output reader before the stream ended, the
\* group context is eventually cancelled, every worker eventually stops
\* having closed its pipe, and the writer task terminates, wherever the
\* writer task and the workers were at the moment of the close.
C33_CloseWindsUp == (callerState = "closed") ~> WoundUp

\* a call woken by the close of ctx.Done() is run by the Go scheduler
CancelledStep(c) == ReqAcquireCancelled(c) \/ ReqSleepCancelled(c)

\* upstream requests whose goroutines are scheduled once the context is done;
\* nothing is assumed of the timers, the upstream or the other calls
FairSpecReq == InitIdle /\ [][NextReq]_vars /\ \A c \in Calls : WF_vars(CancelledStep(c))

\* the call is parked in the backoff between two attempts, or at the
\* semaphore, and its context is done
CancelledWaiting(c) == rctx /\ rpc[c] \in {"sleep", "acquire"}

\* C34: a request whose context is cancelled while it sleeps between two
\* attempts, or while it waits for a semaphore token, returns the
\* cancellation error: that return is its next step, it makes no further
\* attempt, and it comes without the timer firing or a token being released.
C34_CancelEndsWaiting ==
    /\ [][\A c \in Calls :
            (CancelledWaiting(c) /\ rpc'[c] # rpc[c]) =>
                /\ rpc'[c] = "failed"
                /\ rret'[c] = ErrCtx
                /\ rdials'[c] = rdials[c]]_vars
    /\ \A c \in Calls :
          CancelledWaiting(c) ~> (rpc[c] = "failed" /\ rret[c] = ErrCtx)

\* one call was cancelled in its backoff with attempts left, another while
\* it waited for the token of the same client
C34_Witness ==
    /\ \E c \in Calls :
          /\ rpc[c] = "failed" /\ rret[c] = ErrCtx
          /\ rdials[c] >= 1 /\ rdials[c] <= MaxRetries
    /\ \E c \in Calls : rpc[c] = "failed" /\ rret[c] = ErrCtx /\ rdials[c] = 0
    /\ \A c \in Calls : rclient[c] = 1

(***************************************************************************)
(* The format of a response alone.                                         *)
(***************************************************************************)
InitResp == InitIdleAsm /\ InitReq /\ IdleText /\ IdleAudio /\ IdleFacade /\ InputResp /\ IdleLimit

SpecResp == InitResp /\ [][NextResp]_vars

\* the format the statement gives a Content-Type: that of the canonical MIME
\* type it is, MP3 for audio/mp3 and for everything else
StatedFormat(ct) ==
    IF \E f \in ValidFormats : ct = ContentTypeMap[f]
    THEN CHOOSE f \in ValidFormats : ct = ContentTypeMap[f]
    ELSE "mp3"

\* C35: the format recorded on an upstream response stream is a function of
\* the Content-Type alone: each of the six canonical MIME types gives the
\* format it is the MIME type of, audio/mp3 gives MP3, and every other
\* Content-Type gives MP3, whatever format was requested.
C35_FormatFromContentTypeOnly ==
    respPc = "done" => actualFormat = StatedFormat(contentType)

(***************************************************************************)
(* The rate limiter alone.                                                 *)
(***************************************************************************)
InitLimit == InitIdleAsm /\ InitReq /\ IdleText /\ IdleAudio /\ IdleFacade /\ IdleResp /\ InputLimit

SpecLimit == InitLimit /\ [][NextLimit]_vars

\* the cap of a limiter made for a positive requestsPerSecond is that number
CapIsRequestsPerSecond ==
    \A requestsPerSecond \in 1..MaxRate :
        newRateLimiter(requestsPerSecond, 0).maxTokens = requestsPerSecond

\* the tokens the statement has available at a call: those left, and the cap
\* once for every whole second since the last refill, at most the cap
StatedAvailable ==
    Min(limiter.maxTokens,
        limiter.tokens + limiter.maxTokens * ((clock - limiter.lastRefill) \div TicksPerSecond))

\* C36: the token count of the rate limiter stays within 0..R, R being the
\* cap (requestsPerSecond); each request first refills R tokens for every
\* whole second since the last refill, capped at R, and is then admitted
\* for one token if there is one, and otherwise refused; a refused request
\* is answered 429 and is not passed on to the handler.
C36_TokenBucket ==
    /\ [](CapIsRequestsPerSecond /\ limiter.tokens \in 0..limiter.maxTokens)
    /\ [][clock' = clock =>
            IF StatedAvailable > 0
            THEN /\ limiter'.tokens = StatedAvailable - 1
                 /\ limNext'
                 /\ limStatus' = 0
            ELSE /\ limiter'.tokens = 0
                 /\ ~limNext'
                 /\ limStatus' = 429]_vars

\* a request is refused within the second of the last admitted one, and the
\* bucket has been refilled at least once before
C36_Witness ==
    /\ limPc = "on"
    /\ limStatus = 429
    /\ ~limNext
    /\ limiter.tokens = 0
    /\ limiter.lastRefill > 0
    /\ clock > limiter.lastRefill

\* the characters of a text that are not white space
NonSpace(s) == SelectSeq(s, LAMBDA c : ~IsSpace(c))

\* b is a with '.' characters inserted
RECURSIVE DotsInserted(_, _)
DotsInserted(a, b) ==
    IF b = <<>> THEN a = <<>>
    ELSE \/ Head(b) = "." /\ DotsInserted(a, Tail(b))
         \/ a # <<>> /\ Head(a) = Head(b) /\ DotsInserted(Tail(a), Tail(b))

\* C37: for a sanitized text, maxLength > 0 and preserveWords = true, the
\* chunks of SplitTextByLength joined in order are the input up to white
\* space and inserted '.' characters: no other character of the input is
\* dropped or replaced, '!' and repeated terminators included.
C37_JoinReproducesInput ==
    (textPc = "split" /\ sanitized /\ preserveWords) =>
        DotsInserted(NonSpace(text), NonSpace(JoinPieces(chunks)))

\* C38: a speech request with a negative max_length is answered with a 400
\* validation error before its text is chunked and before any upstream
\* request: once the handler has acted on it, it has been answered 400, the
\* long-text path (and with it the chunker) was not entered, and it does not
\* end in a panic or a 500.
C38_NegativeMaxLengthRejected ==
    (hreq.maxLength < 0 /\ hpc \notin {"off", "recv"}) =>
        /\ hpc = "done"
        /\ hstatus = 400
        /\ hpath = "none"
        /\ hup = 0

\* the chunk whose fetch the upstream failed in the run, if any (the fetches
\* that fail after it fail with the cancelled context)
FailedFetch ==
    {i \in 1..(nChunks - 1) :
        pipes[i].w.st = "err" /\ pipes[i].w.e.op = "fetch" /\ pipes[i].w.e.cause = "upstream"}

\* nothing else went wrong in the run: no cancellation from outside, no close
\* by the caller, no body that failed to read
OnlyFetchFailed ==
    /\ FailedFetch # {}
    /\ ~extCancel
    /\ callerState # "closed"
    /\ ~(outp.w.e.op = "body0" /\ outp.w.e.cause = "read")
    /\ \A i \in 1..(nChunks - 1) : pipes[i].w.e.cause # "read"

\* C39: for the same chunks and the same upstream answers the concurrent
\* assembler delivers what the sequential one delivers: the same bytes when
\* every fetch succeeds, and when the fetch of chunk i fails, an error after
\* the bytes of the chunks before i, whatever the worker count and the
\* interleaving.
C39_SameOutcomeAsSequential ==
    /\ callerState = "eof" =>
          LET seq == GenerateSpeechLongTextStream(nChunks, upstream, nChunks)
          IN  ~seq.err /\ received = seq.bytes
    /\ (callerState = "err" /\ OnlyFetchFailed) =>
          LET seq == GenerateSpeechLongTextStream(nChunks, upstream, SetMin(FailedFetch))
          IN  seq.err /\ received = seq.bytes

=========================================================================
